---- MODULE Spec2Model ----
(***************************************************************************)
(* Auto-predict coordination layer of the lead-scoring backend:            *)
(*   cacheService.js      (prediction cache, pending markers, status)      *)
(*   autoPredictService.js (predictSingleWithCache, autoPredictNewCustomers,*)
(*                          triggerPredictionForNewCustomer,               *)
(*                          triggerBatchPrediction)                        *)
(*   predictionJob.js     (cron tick, manual trigger, job state)           *)
(*   customerController.js (create / update / upload handlers)             *)
(* Node.js runs one synchronous segment at a time; every action below is   *)
(* one such segment: the code between two awaits.                          *)
(***************************************************************************)
EXTENDS Integers, Sequences, FiniteSets, TLC

\* ---------------------------------------------------------------- bounds
NumCustomers == 2
MaxApiCalls == 2
MaxSweeps == 2
MaxTasks == 1
MaxRequests == 1
MaxPreds == 2
MaxRuns == 2
TickSeconds == 300
MaxRows == 2
MaxUploadRows == 11
MaxUpdates == 1

\* ------------------------------------------------------ program constants
CACHE_TTL == 300
PENDING_TTL == 600
BATCH_SIZE == 50

Ids == 1..NumCustomers
ApiSlots == {<<"api", n>> : n \in 1..MaxApiCalls}
SweepSlots == {<<"sweep", n>> : n \in 1..MaxSweeps}
TaskSlots == {<<"task", n>> : n \in 1..MaxTasks}
ReqSlots == 1..MaxRequests
Callers == ApiSlots \cup SweepSlots \cup TaskSlots

Absent == -1
NoEntry == [val |-> 0, left |-> Absent]

VARIABLES
  cache,          \* prediction_<id> entries of the NodeCache: value and remaining TTL
  pending,        \* pending_<id> entries: remaining TTL, Absent when not set
  autoPredictStatus, \* the auto_predict_status entry (status string or "null")
  dbCustomers,    \* rows of table customers (ids)
  dbPredictions,  \* number of rows of table predictions per customer
  customerRevision,   \* per customer, the revision of its row (0 as created, +1 per UPDATE)
  dbUsers,        \* rows of table users (emails)
  predictionData, \* per customer, the customer revision each prediction row was scored from
  calls,          \* activation records of predictSingleWithCache, per caller
  sweeps,         \* activation records of autoPredictNewCustomers, per job run
  isJobRunning, lastJobResult, totalRuns, lastRunTime, \* predictionJob.js state
  processEnv,     \* process.env: ENABLE_AUTO_PREDICT_CRON and AUTO_PREDICT_CRON
  tasks,          \* setImmediate callbacks of the trigger functions
  requests,       \* HTTP handlers of customerController.js
  cpu             \* the handler whose synchronous segment is executing

vars == <<cache, pending, autoPredictStatus, dbCustomers, dbPredictions,
          customerRevision, predictionData, dbUsers, calls, sweeps, isJobRunning, lastJobResult, totalRuns, lastRunTime,
          processEnv, tasks, requests, cpu>>

cacheVars == <<cache, pending>>
dbVars == <<dbCustomers, dbPredictions, customerRevision, predictionData, dbUsers>>
jobVars == <<isJobRunning, lastJobResult, totalRuns, lastRunTime, processEnv>>

\* ------------------------------------------------------- JavaScript values
\* A value carries its typeof tag; a number is held in hundredths (30 is
\* 3000, 1500.50 is 150050), NaN and Infinity are numbers with a mark.
Num(n) == [t |-> "number", n |-> n, s |-> ""]
NaN == [t |-> "number", n |-> 0, s |-> "NaN"]
Infinity == [t |-> "number", n |-> 0, s |-> "Infinity"]
Str(s) == [t |-> "string", n |-> 0, s |-> s]
Bool(b) == [t |-> "boolean", n |-> IF b THEN 1 ELSE 0, s |-> ""]
Undefined == [t |-> "undefined", n |-> 0, s |-> ""]

typeof(v) == v.t

\* isNaN(v) for a number or a string already converted by Number()
isNaN(v) == v.t = "undefined" \/ (v.t = "number" /\ v.s = "NaN")

IsFinite(v) == v.t = "number" /\ v.s = ""

\* !v
Falsy(v) ==
  CASE v.t = "number" -> v.s = "NaN" \/ (v.s = "" /\ v.n = 0)
    [] v.t = "string" -> v.s = ""
    [] v.t = "boolean" -> v.n = 0
    [] OTHER -> TRUE

\* v < k and v > k for a whole number k; every comparison with NaN is false
Less(v, k) == v.t = "number" /\ v.s = "" /\ v.n < k * 100
Greater(v, k) == v.t = "number" /\ (v.s = "Infinity" \/ (v.s = "" /\ v.n > k * 100))

\* the strings of the sample cells that start with a number: the whole part
\* and the hundredths of that leading number
NumericPrefix ==
  [s \in {"25abc", "12abc", "1500.50"} |->
     CASE s = "25abc" -> <<25, 0>>
       [] s = "12abc" -> <<12, 0>>
       [] s = "1500.50" -> <<1500, 50>>]

Trunc(n) == IF n >= 0 THEN (n \div 100) * 100 ELSE 0 - (((0 - n) \div 100) * 100)

\* parseInt(v): v is converted to a string first; the leading digits are read
parseInt(v) ==
  CASE v.t = "number" /\ v.s = "" -> Num(Trunc(v.n))
    [] v.t = "string" /\ v.s \in DOMAIN NumericPrefix -> Num(NumericPrefix[v.s][1] * 100)
    [] OTHER -> NaN

\* parseFloat(s) of a string: the leading number, or the word Infinity
parseFloat(s) ==
  CASE s \in DOMAIN NumericPrefix -> Num(NumericPrefix[s][1] * 100 + NumericPrefix[s][2])
    [] s = "Infinity" -> Infinity
    [] OTHER -> NaN

\* Number(v) of a string or a number, as the validator's balance check uses it
Number(v) ==
  CASE v.t = "number" -> v
    [] v.t = "string" /\ v.s = "" -> Num(0)
    [] v.t = "string" /\ v.s = "1500.50" -> Num(150050)
    [] v.t = "string" /\ v.s = "Infinity" -> Infinity
    [] v.t = "boolean" -> Num(v.n * 100)
    [] OTHER -> NaN

\* value.toLowerCase().trim() on the sample cells
toLowerCase(s) ==
  CASE s \in {"YES", "Yes"} -> "yes"
    [] s \in {"TRUE", "True"} -> "true"
    [] s \in {"NO", "No"} -> "no"
    [] s \in {"FALSE", "False"} -> "false"
    [] OTHER -> s

\* record.key: undefined when the record has no such property
Get(record, key) == IF key \in DOMAIN record THEN record[key] ELSE Undefined

\* { ...record, key: value }
Put(record, key, value) ==
  [c \in DOMAIN record \cup {key} |-> IF c = key THEN value ELSE record[c]]

\* null, as the driver returns a column that holds NULL
Null == [t |-> "object", n |-> 0, s |-> "null"]

\* v || d
Or(v, d) == IF Falsy(v) THEN d ELSE v

\* ------------------------------------------------------------- mlService.js
\* rows the customers table can hold (columns of the scorer's features; the
\* feature columns but age are nullable): bulkCreateCustomers and
\* updateCustomer store campaign, pdays and previous as given
StoredRows ==
  << [age |-> Num(3000), job |-> Str("technician"), marital |-> Str("married"),
      education |-> Str("secondary"), has_default |-> Bool(FALSE),
      has_housing_loan |-> Bool(TRUE), has_personal_loan |-> Bool(FALSE),
      contact |-> Str("cellular"), month |-> Str("may"), day_of_week |-> Str("mon"),
      campaign |-> Num(200), pdays |-> Num(0), previous |-> Num(100),
      poutcome |-> Str("failure")],
     [age |-> Num(4500), job |-> Null, marital |-> Null, education |-> Null,
      has_default |-> Null, has_housing_loan |-> Null, has_personal_loan |-> Null,
      contact |-> Null, month |-> Null, day_of_week |-> Null,
      campaign |-> Null, pdays |-> Null, previous |-> Null, poutcome |-> Null],
     [age |-> Num(3800), job |-> Str("admin."), marital |-> Str("divorced"),
      education |-> Str("secondary"), has_default |-> Bool(FALSE),
      has_housing_loan |-> Bool(TRUE), has_personal_loan |-> Bool(TRUE),
      contact |-> Str("cellular"), month |-> Str("may"), day_of_week |-> Str("wed"),
      campaign |-> Num(300), pdays |-> Num(99900), previous |-> Num(0),
      poutcome |-> Str("nonexistent")],
     [age |-> Num(5200), job |-> Str("retired"), marital |-> Str("single"),
      education |-> Str("tertiary"), has_default |-> Bool(TRUE),
      has_housing_loan |-> Bool(FALSE), has_personal_loan |-> Bool(FALSE),
      contact |-> Str("telephone"), month |-> Str("jun"), day_of_week |-> Str("fri"),
      campaign |-> Num(100), pdays |-> Num(500), previous |-> Num(200),
      poutcome |-> Str("success")] >>

\* SELECT * FROM customers WHERE id = $1: the row of a customer at a revision
CustomerRow(customerId, revision) ==
  StoredRows[((2 * customerId + revision) % Len(StoredRows)) + 1]

PayloadKeys == {"age", "job", "marital", "education", "default", "housing", "loan",
                "contact", "month", "day_of_week", "campaign", "pdays", "previous",
                "poutcome"}

NoPayload == [c \in PayloadKeys |-> Undefined]

\* predictCustomer: const mlPayload = { ... }
predictCustomerPayload(customerData) ==
  [age |-> customerData.age,
   job |-> customerData.job,
   marital |-> customerData.marital,
   education |-> customerData.education,
   default |-> Or(customerData.has_default, Bool(FALSE)),
   housing |-> Or(customerData.has_housing_loan, Bool(FALSE)),
   loan |-> Or(customerData.has_personal_loan, Bool(FALSE)),
   contact |-> customerData.contact,
   month |-> customerData.month,
   day_of_week |-> customerData.day_of_week,
   campaign |-> Or(customerData.campaign, Num(100)),
   pdays |-> Or(customerData.pdays, Num(99900)),
   previous |-> Or(customerData.previous, Num(0)),
   poutcome |-> Or(customerData.poutcome, Str("unknown"))]

\* batchPredict: customers: customersData.map((customer) => ({ ... }))
batchPredictPayload(customersData) ==
  [x \in 1..Len(customersData) |->
     LET customer == customersData[x] IN
     [age |-> customer.age,
      job |-> customer.job,
      marital |-> customer.marital,
      education |-> customer.education,
      default |-> Or(customer.has_default, Bool(FALSE)),
      housing |-> Or(customer.has_housing_loan, Bool(FALSE)),
      loan |-> Or(customer.has_personal_loan, Bool(FALSE)),
      contact |-> customer.contact,
      month |-> customer.month,
      day_of_week |-> customer.day_of_week,
      campaign |-> Or(customer.campaign, Num(100)),
      pdays |-> Or(customer.pdays, Num(99900)),
      previous |-> Or(customer.previous, Num(0)),
      poutcome |-> Or(customer.poutcome, Str("unknown"))]]

\* ------------------------------------------------------------ cacheService
CacheMissAlways(customerId) == 0

getCachedPrediction(customerId) ==
  IF cache[customerId] = NoEntry THEN 0 ELSE cache[customerId].val

setCachedPrediction(c, customerId, prediction) ==
  [c EXCEPT ![customerId] = [val |-> prediction, left |-> CACHE_TTL]]

deleteCachedPrediction(c, customerId) ==
  [c EXCEPT ![customerId] = NoEntry]

PendingNever(customerId) == FALSE

isPendingPrediction(customerId) == pending[customerId] # Absent

markPendingPrediction(p, customerId) == [p EXCEPT ![customerId] = PENDING_TTL]

PendingKept(p, customerId) == p

removePendingPrediction(p, customerId) == [p EXCEPT ![customerId] = Absent]

AgedNever(left) == left

\* node-cache: an entry is invisible to get once its TTL has passed
Aged(left) == IF left = Absent \/ left - TickSeconds < 0 THEN Absent
              ELSE left - TickSeconds

Tick ==
  /\ cpu = 0
  /\ \E id \in Ids : cache[id] # NoEntry \/ pending[id] # Absent
  /\ cache' = [id \in Ids |->
                 IF Aged(cache[id].left) = Absent THEN NoEntry
                 ELSE [cache[id] EXCEPT !.left = Aged(cache[id].left)]]
  /\ pending' = [id \in Ids |-> Aged(pending[id])]
  /\ UNCHANGED <<autoPredictStatus, dbVars, calls, sweeps, jobVars,
                 tasks, requests, cpu>>

\* ------------------------------------------------- predictSingleWithCache
IdleCall == [pc |-> "idle", id |-> 0, force |-> FALSE, out |-> "none", val |-> 0,
             gw |-> 0, cw |-> 0, fetched |-> FALSE, marked |-> FALSE,
             customer |-> 0, payload |-> NoPayload]

\* the catch block: clear the marker, rethrow
CallThrow(f) == [f EXCEPT !.pc = "done", !.out = "threw"]

\* First synchronous segment: cache check, pending check, mark, issue the
\* customer query.  cs and pd are the cache and pending maps it starts from.
predictSingleWithCache(k, customerId, forceRefresh) ==
  LET f == [IdleCall EXCEPT !.id = customerId, !.force = forceRefresh] IN
  IF ~forceRefresh /\ getCachedPrediction(customerId) # 0
  THEN /\ calls' = [calls EXCEPT ![k] = [f EXCEPT !.pc = "done", !.out = "fromCache",
                                          !.val = getCachedPrediction(customerId)]]
       /\ pending' = pending
  ELSE IF isPendingPrediction(customerId)
  THEN /\ calls' = [calls EXCEPT ![k] = [f EXCEPT !.pc = "done", !.out = "pending"]]
       /\ pending' = pending
  ELSE /\ calls' = [calls EXCEPT ![k] = [f EXCEPT !.pc = "getCustomerById",
                                          !.marked = TRUE]]
       /\ pending' = markPendingPrediction(pending, customerId)

\* getCustomerById resolves
CallFetched(k) ==
  /\ cpu = 0
  /\ calls[k].pc = "getCustomerById"
  /\ \E dbOk \in BOOLEAN :
       LET f == calls[k] IN
       IF dbOk /\ f.id \in dbCustomers
       THEN /\ calls' = [calls EXCEPT ![k] = [f EXCEPT !.pc = "predictCustomer",
                                             !.fetched = TRUE, !.gw = f.gw + 1,
                                             !.customer = customerRevision[f.id],
                                             !.payload = predictCustomerPayload(
                                               CustomerRow(f.id, customerRevision[f.id]))]]
            /\ pending' = pending
       ELSE /\ calls' = [calls EXCEPT ![k] = CallThrow([f EXCEPT !.fetched = dbOk])]
            /\ pending' = removePendingPrediction(pending, f.id)
  /\ UNCHANGED <<cache, autoPredictStatus, dbVars, sweeps, jobVars,
                 tasks, requests, cpu>>

\* predictCustomer resolves
CallPredicted(k) ==
  /\ cpu = 0
  /\ calls[k].pc = "predictCustomer"
  /\ \E mlOk \in BOOLEAN :
       LET f == calls[k] IN
       IF mlOk
       THEN /\ calls' = [calls EXCEPT ![k] = [f EXCEPT !.pc = "createPrediction"]]
            /\ pending' = pending
       ELSE /\ calls' = [calls EXCEPT ![k] = CallThrow(f)]
            /\ pending' = removePendingPrediction(pending, f.id)
  /\ UNCHANGED <<cache, autoPredictStatus, dbVars, sweeps, jobVars,
                 tasks, requests, cpu>>

\* INSERT INTO predictions: fails on a database error or when the customer
\* row is gone (foreign key)
InsertOk(dbOk, customerId) ==
  dbOk /\ customerId \in dbCustomers /\ dbPredictions[customerId] < MaxPreds

\* createPrediction resolves
CallSaved(k) ==
  /\ cpu = 0
  /\ calls[k].pc = "createPrediction"
  /\ \E dbOk \in BOOLEAN :
       LET f == calls[k] IN
       IF InsertOk(dbOk, f.id)
       THEN LET saved == dbPredictions[f.id] + 1 IN
            /\ dbPredictions' = [dbPredictions EXCEPT ![f.id] = saved]
            /\ predictionData' = [predictionData EXCEPT
                                    ![f.id] = Append(@, f.customer)]
            /\ cache' = setCachedPrediction(cache, f.id, saved)
            /\ pending' = removePendingPrediction(pending, f.id)
            /\ calls' = [calls EXCEPT ![k] = [f EXCEPT !.pc = "done", !.out = "result",
                                             !.val = saved, !.cw = f.cw + 1]]
       ELSE /\ calls' = [calls EXCEPT ![k] = CallThrow(f)]
            /\ pending' = removePendingPrediction(pending, f.id)
            /\ UNCHANGED <<cache, dbPredictions, predictionData>>
  /\ UNCHANGED <<autoPredictStatus, dbCustomers, customerRevision, dbUsers, sweeps,
                 jobVars, tasks, requests, cpu>>

\* a direct caller of the exported function (callers are interchangeable: the
\* lowest free slot is taken)
ApiCall(k, customerId, forceRefresh) ==
  /\ cpu = 0
  /\ calls[k].pc = "idle"
  /\ \A o \in ApiSlots : calls[o].pc = "idle" => k[2] <= o[2]
  /\ predictSingleWithCache(k, customerId, forceRefresh)
  /\ UNCHANGED <<cache, autoPredictStatus, dbVars, sweeps, jobVars,
                 tasks, requests, cpu>>

\* the caller has taken the result or the exception
ApiReturn(k) ==
  /\ cpu = 0
  /\ calls[k].pc = "done"
  /\ calls' = [calls EXCEPT ![k] = IdleCall]
  /\ UNCHANGED <<cache, pending, autoPredictStatus, dbVars, sweeps, jobVars,
                 tasks, requests, cpu>>

\* ------------------------------------------------ autoPredictNewCustomers
NoResult == [skipped |-> FALSE, reason |-> "", error |-> "", total |-> 0,
             success |-> 0, failed |-> 0, errors |-> <<>>, null |-> FALSE]

\* let lastJobResult = null
NullResult == [NoResult EXCEPT !.null = TRUE]

IdleSweep == [pc |-> "idle", kind |-> "none", customers |-> <<>>, data |-> <<>>,
              payload |-> <<>>, i |-> 0,
              predictions |-> <<>>, total |-> 0, success |-> 0, failed |-> 0,
              errors |-> <<>>, result |-> NoResult, threw |-> FALSE,
              reply |-> "none", queries |-> 0, gw |-> 0, saved |-> 0,
              tried |-> <<>>, batchThrew |-> FALSE, rets |-> 0, throws |-> 0,
              health |-> "none", caught |-> FALSE, inserts |-> 0]

\* const summary = { total, success, failed, skipped, errors }
Summary(sw) == [skipped |-> FALSE, reason |-> "", error |-> "", total |-> sw.total,
                success |-> sw.success, failed |-> sw.failed, errors |-> sw.errors,
                null |-> FALSE]

\* return summary
ReturnSummary(sw) == [sw EXCEPT !.pc = "done", !.result = Summary(sw)]

\* return { ...summary, skipped: true, reason: 'ML service unavailable' }
ReturnSkipped(sw) ==
  [sw EXCEPT !.pc = "done",
             !.result = [Summary(sw) EXCEPT !.skipped = TRUE,
                                            !.reason = "ML service unavailable"]]

TopLevelRethrow(sw, message) == [sw EXCEPT !.pc = "done", !.threw = TRUE]

\* the top-level catch: return { ...summary, error: error.message }
TopLevelCatch(sw, message) ==
  [sw EXCEPT !.pc = "done", !.result = [Summary(sw) EXCEPT !.error = message]]

\* SELECT c.* FROM customers c LEFT JOIN predictions p ... WHERE p.id IS NULL LIMIT $1
\* (no ORDER BY: any order, any choice of at most limit rows)
Min(a, b) == IF a < b THEN a ELSE b

Unscored == {c \in dbCustomers : dbPredictions[c] = 0}

getCustomersWithoutPredictions(limit) ==
  {q \in UNION {[1..n -> Unscored] : n \in 0..NumCustomers} :
     /\ Len(q) = Min(limit, Cardinality(Unscored))
     /\ \A a, b \in 1..Len(q) : a # b => q[a] # q[b]}

\* The scheduler's continuation after `await autoPredictNewCustomers()`: the
\* try / catch / finally of autoPredictJob and of triggerManualPredictJob.
\* It runs in the same turn of the event loop as the sweep's return.
JobSettleNoFinally(s, sw) ==
  /\ lastJobResult' = IF sw.threw THEN [NoResult EXCEPT !.error = "job failed"]
                      ELSE sw.result
  /\ totalRuns' = totalRuns + 1
  /\ lastRunTime' = 1
  /\ UNCHANGED processEnv
  /\ isJobRunning' = isJobRunning
  /\ sweeps' = [sweeps EXCEPT ![s] =
        [sw EXCEPT !.reply = IF sw.kind # "manual" THEN "none"
                             ELSE IF sw.threw THEN "threw" ELSE "completed"]]

JobSettle(s, sw) ==
  /\ lastJobResult' = IF sw.threw THEN [NoResult EXCEPT !.error = "job failed"]
                      ELSE sw.result
  /\ totalRuns' = totalRuns + 1
  /\ lastRunTime' = 1
  /\ UNCHANGED processEnv
  /\ isJobRunning' = FALSE
  /\ sweeps' = [sweeps EXCEPT ![s] =
        [sw EXCEPT !.reply = IF sw.kind # "manual" THEN "none"
                             ELSE IF sw.threw THEN "threw" ELSE "completed"]]

CompletedStatusKept(s, sw) ==
  /\ UNCHANGED autoPredictStatus
  /\ JobSettle(s, ReturnSummary(sw))

\* lines 207-212: the sweep has gone through its customers
Completed(s, sw) ==
  /\ autoPredictStatus' = "completed - predicted"
  /\ JobSettle(s, ReturnSummary(sw))

BatchScanAbort(sw, i) ==
  IF i > Len(sw.customers) THEN [sw EXCEPT !.i = i]
  ELSE IF sw.predictions[i] = "err"
  THEN [sw EXCEPT !.failed = sw.failed + 1,
                  !.errors = Append(sw.errors, sw.customers[i]),
                  !.i = Len(sw.customers) + 1]
  ELSE [sw EXCEPT !.i = i, !.inserts = sw.inserts + 1]

\* The batch loop up to its next await: items the scorer reported an error for
\* are counted failed (continue); it stops at the first item to persist, whose
\* createPrediction it issues.
RECURSIVE BatchScan(_, _)
BatchScan(sw, i) ==
  IF i > Len(sw.customers) THEN [sw EXCEPT !.i = i]
  ELSE IF sw.predictions[i] = "err"
  THEN BatchScan([sw EXCEPT !.failed = sw.failed + 1,
                            !.errors = Append(sw.errors, sw.customers[i])], i + 1)
  ELSE [sw EXCEPT !.i = i, !.inserts = sw.inserts + 1]

SingleOutcomeBlanket(sw, f) ==
  [sw EXCEPT !.failed = sw.failed + 1, !.errors = Append(sw.errors, f.id)]

\* try { await predictSingleWithCache(id, true); success++ } catch { failed++ ... }
SingleOutcome(sw, f) ==
  IF f.out = "threw"
  THEN [sw EXCEPT !.failed = sw.failed + 1, !.errors = Append(sw.errors, f.id)]
  ELSE [sw EXCEPT !.success = sw.success + 1]

StartSweepCounted(s, kind) ==
  /\ isJobRunning' = TRUE
  /\ autoPredictStatus' = "running"
  /\ sweeps' = [sweeps EXCEPT ![s] = [IdleSweep EXCEPT !.pc = "checkMLServiceHealth",
                                                       !.kind = kind]]
  /\ totalRuns' = totalRuns + 1
  /\ UNCHANGED <<lastJobResult, lastRunTime, processEnv>>

\* the job body up to its first await: lines 98-112
StartSweep(s, kind) ==
  /\ isJobRunning' = TRUE
  /\ autoPredictStatus' = "running"
  /\ sweeps' = [sweeps EXCEPT ![s] = [IdleSweep EXCEPT !.pc = "checkMLServiceHealth",
                                                       !.kind = kind]]
  /\ UNCHANGED <<lastJobResult, totalRuns, lastRunTime, processEnv>>

UnhealthyNever(status) == FALSE

\* if (mlHealth.status !== 'OK')
Unhealthy(status) == status # "OK"

\* checkMLServiceHealth resolves (it never throws)
SweepHealth(s) ==
  /\ cpu = 0
  /\ sweeps[s].pc = "checkMLServiceHealth"
  /\ \E status \in {"OK", "ERROR"} :
       IF Unhealthy(status)
       THEN /\ autoPredictStatus' = "skipped - ML service unavailable"
            /\ JobSettle(s, ReturnSkipped([sweeps[s] EXCEPT !.health = status]))
       ELSE /\ sweeps' = [sweeps EXCEPT ![s] =
                 [@ EXCEPT !.pc = "getCustomersWithoutPredictions", !.queries = @ + 1,
                           !.health = status]]
            /\ UNCHANGED <<autoPredictStatus, jobVars>>
  /\ UNCHANGED <<cacheVars, dbVars, calls, tasks, requests, cpu>>

\* getCustomersWithoutPredictions(limit) resolves
SweepQueriedWith(s, limit) ==
  /\ cpu = 0
  /\ sweeps[s].pc = "getCustomersWithoutPredictions"
  /\ \E dbOk \in BOOLEAN :
       IF ~dbOk
       THEN /\ autoPredictStatus' = "error"
            /\ JobSettle(s, TopLevelCatch([sweeps[s] EXCEPT !.caught = TRUE],
                                          "query failed"))
            /\ UNCHANGED <<calls, pending>>
       ELSE \E customers \in getCustomersWithoutPredictions(limit) :
            LET sw == [sweeps[s] EXCEPT !.customers = customers,
                                        !.data = [x \in 1..Len(customers) |->
                                                    customerRevision[customers[x]]],
                                        !.total = Len(customers)] IN
            IF Len(customers) = 0
            THEN /\ autoPredictStatus' = "completed - no new customers"
                 /\ JobSettle(s, ReturnSummary(sw))
                 /\ UNCHANGED <<calls, pending>>
            ELSE IF Len(customers) > 1
            THEN /\ sweeps' = [sweeps EXCEPT ![s] =
                      [sw EXCEPT !.pc = "batchPredict", !.gw = sw.gw + 1,
                                 !.payload = batchPredictPayload(
                                   [x \in 1..Len(customers) |->
                                      CustomerRow(customers[x], sw.data[x])])]]
                 /\ UNCHANGED <<autoPredictStatus, jobVars, calls, pending>>
            ELSE /\ sweeps' = [sweeps EXCEPT ![s] =
                      [sw EXCEPT !.pc = "single", !.i = 1,
                                 !.tried = Append(sw.tried, customers[1])]]
                 /\ predictSingleWithCache(s, customers[1], TRUE)
                 /\ UNCHANGED <<autoPredictStatus, jobVars>>
  /\ UNCHANGED <<cache, dbVars, tasks, requests, cpu>>

\* const customers = await getCustomersWithoutPredictions(BATCH_SIZE), with
\* the default batch size
SweepQueried(s) ==
  /\ sweeps[s].pc = "getCustomersWithoutPredictions"
  /\ SweepQueriedWith(s, BATCH_SIZE)

\* BATCH_SIZE of a deployment that sets AUTO_PREDICT_BATCH_SIZE=1
SMALL_BATCH_SIZE == 1

\* batchPredict resolves: it throws, or returns one result per customer
SweepBatched(s) ==
  /\ cpu = 0
  /\ sweeps[s].pc = "batchPredict"
  /\ LET n == Len(sweeps[s].customers) IN
     \E mlOk \in BOOLEAN, predictions \in [1..n -> {"ok", "err"}] :
       IF ~mlOk
       THEN /\ predictions = [x \in 1..n |-> "err"]
            /\ sweeps' = [sweeps EXCEPT ![s] =
                 [@ EXCEPT !.pc = "fallback", !.i = 1, !.batchThrew = TRUE,
                           !.tried = Append(@, sweeps[s].customers[1])]]
            /\ predictSingleWithCache(s, sweeps[s].customers[1], TRUE)
            /\ UNCHANGED <<autoPredictStatus, jobVars>>
       ELSE LET sw == BatchScan([sweeps[s] EXCEPT !.predictions = predictions], 1) IN
            IF sw.i > n
            THEN /\ Completed(s, sw)
                 /\ UNCHANGED <<calls, pending>>
            ELSE /\ sweeps' = [sweeps EXCEPT ![s] = [sw EXCEPT !.pc = "createPrediction"]]
                 /\ UNCHANGED <<autoPredictStatus, jobVars, calls, pending>>
  /\ UNCHANGED <<cache, dbVars, tasks, requests, cpu>>

\* createPrediction of the batch loop resolves: lines 150-174
SweepSaved(s) ==
  /\ cpu = 0
  /\ sweeps[s].pc = "createPrediction"
  /\ \E dbOk \in BOOLEAN :
       LET sw0 == sweeps[s]
           id == sw0.customers[sw0.i]
           ok == InsertOk(dbOk, id)
           saved == dbPredictions[id] + 1
           sw1 == IF ok THEN [sw0 EXCEPT !.success = sw0.success + 1,
                                         !.saved = sw0.saved + 1]
                  ELSE [sw0 EXCEPT !.failed = sw0.failed + 1,
                                   !.errors = Append(sw0.errors, id)]
           sw == BatchScan(sw1, sw0.i + 1) IN
       /\ IF ok THEN /\ dbPredictions' = [dbPredictions EXCEPT ![id] = saved]
                     /\ predictionData' = [predictionData EXCEPT
                                             ![id] = Append(@, sw0.data[sw0.i])]
                     /\ cache' = setCachedPrediction(cache, id, saved)
          ELSE UNCHANGED <<dbPredictions, predictionData, cache>>
       /\ IF sw.i > Len(sw.customers)
          THEN Completed(s, sw)
          ELSE /\ sweeps' = [sweeps EXCEPT ![s] = sw]
               /\ UNCHANGED <<autoPredictStatus, jobVars>>
  /\ UNCHANGED <<pending, dbCustomers, customerRevision, dbUsers, calls, tasks,
                 requests, cpu>>

\* predictSingleWithCache has returned or thrown to the sweep (fallback loop,
\* lines 180-191, or the single-customer branch, lines 195-204)
SweepCallDone(s) ==
  /\ cpu = 0
  /\ sweeps[s].pc \in {"fallback", "single"}
  /\ calls[s].pc = "done"
  /\ LET threw == calls[s].out = "threw"
         sw == SingleOutcome([sweeps[s] EXCEPT !.rets = IF threw THEN @ ELSE @ + 1,
                                               !.throws = IF threw THEN @ + 1 ELSE @,
                                               !.saved = IF calls[s].out = "result"
                                                         THEN @ + 1 ELSE @],
                             calls[s]) IN
     IF sw.pc = "fallback" /\ sw.i < Len(sw.customers)
     THEN /\ sweeps' = [sweeps EXCEPT ![s] =
               [sw EXCEPT !.i = sw.i + 1,
                          !.tried = Append(sw.tried, sw.customers[sw.i + 1])]]
          /\ predictSingleWithCache(s, sw.customers[sw.i + 1], TRUE)
          /\ UNCHANGED <<autoPredictStatus, jobVars>>
     ELSE /\ calls' = [calls EXCEPT ![s] = IdleCall]
          /\ Completed(s, sw)
          /\ UNCHANGED pending
  /\ UNCHANGED <<cache, dbVars, tasks, requests, cpu>>

\* ------------------------------------------------------------ predictionJob
\* the record of a run that has ended is dropped (Release) before the next
\* trigger arrives: such a record is inert
NoneEnded == \A o \in SweepSlots : ~(sweeps[o].pc = "done" /\ sweeps[o].health # "none")

JobBusyIgnored == FALSE

\* if (isJobRunning)
JobBusy == isJobRunning

AlreadyRunningFinally(s, kind, reply) ==
  /\ sweeps' = [sweeps EXCEPT ![s] =
        [IdleSweep EXCEPT !.pc = "done", !.kind = kind, !.reply = reply]]
  /\ isJobRunning' = FALSE
  /\ UNCHANGED <<autoPredictStatus, lastJobResult, totalRuns, lastRunTime, processEnv>>

\* the early return of a trigger that finds a run in progress
AlreadyRunning(s, kind, reply) ==
  /\ sweeps' = [sweeps EXCEPT ![s] =
        [IdleSweep EXCEPT !.pc = "done", !.kind = kind, !.reply = reply]]
  /\ UNCHANGED <<autoPredictStatus, jobVars>>

\* process.env of the README's configuration, and the values an operator sets
DefaultEnv == [ENABLE_AUTO_PREDICT_CRON |-> "true", AUTO_PREDICT_CRON |-> "*/2 * * * *"]

EnableSamples == {"undefined", "true", "false"}
CronSamples == {"undefined", "*/2 * * * *", "*/5 * * * *", "0 * * * *"}

Envs == [ENABLE_AUTO_PREDICT_CRON : EnableSamples, AUTO_PREDICT_CRON : CronSamples]

\* const AUTO_PREDICT_CRON = process.env.AUTO_PREDICT_CRON || '*/2 * * * *'
AUTO_PREDICT_CRON ==
  IF processEnv.AUTO_PREDICT_CRON \in {"undefined", ""} THEN "*/2 * * * *"
  ELSE processEnv.AUTO_PREDICT_CRON

\* process.env.ENABLE_AUTO_PREDICT_CRON !== 'false'
enableAutoPredictCron == processEnv.ENABLE_AUTO_PREDICT_CRON # "false"

\* startCronJobs at start-up: autoPredictJob.start() only when enabled
startCronJobs == enableAutoPredictCron

\* the callback of cron.schedule(AUTO_PREDICT_CRON, ...)
autoPredictJob(s) ==
  /\ cpu = 0
  /\ startCronJobs
  /\ sweeps[s].pc = "idle"
  /\ NoneEnded
  /\ totalRuns < MaxRuns
  /\ IF JobBusy
     THEN AlreadyRunning(s, "cron", "skipped")
     ELSE StartSweep(s, "cron")
  /\ UNCHANGED <<cacheVars, dbVars, calls, tasks, requests, cpu>>

triggerManualPredictJob(s) ==
  /\ cpu = 0
  /\ sweeps[s].pc = "idle"
  /\ NoneEnded
  /\ totalRuns < MaxRuns
  /\ IF JobBusy
     THEN AlreadyRunning(s, "manual", "Job already running")
     ELSE StartSweep(s, "manual")
  /\ UNCHANGED <<cacheVars, dbVars, calls, tasks, requests, cpu>>

\* new Date(lastRunTime).getTime(), in milliseconds: the modelled timestamp
\* stands for one instant, half an hour after the start of the process
RunInstant == 1800000
getTime(t) == t * RunInstant

NullTime == -1

\* getJobStatus, lines 104-126
getJobStatus ==
  [isRunning |-> isJobRunning,
   cronEnabled |-> enableAutoPredictCron,
   lastRunTime |-> lastRunTime,
   nextRunTime |-> IF lastRunTime # 0 /\ enableAutoPredictCron
                   THEN getTime(lastRunTime) + 2 * 60 * 1000
                   ELSE NullTime,
   cronSchedule |-> AUTO_PREDICT_CRON,
   totalRuns |-> totalRuns,
   lastResult |-> lastJobResult,
   autoPredictStatus |-> autoPredictStatus]

\* the run's record is dropped once its caller has the reply
Release(s) ==
  /\ cpu = 0
  /\ sweeps[s].pc = "done"
  /\ sweeps' = [sweeps EXCEPT ![s] = IdleSweep]
  /\ UNCHANGED <<cacheVars, autoPredictStatus, dbVars, calls, jobVars,
                 tasks, requests, cpu>>

\* ------------------------------------------- trigger functions (setImmediate)
IdleTask == [pc |-> "idle", ids |-> <<>>, i |-> 0, fails |-> 0]

TriggerInline(ts, t, customerId) ==
  [ts EXCEPT ![t] = [IdleTask EXCEPT !.pc = "running", !.i = 1, !.ids = <<customerId>>]]

\* setImmediate(async () => { ... predictSingleWithCache(customerId, true) ... })
triggerPredictionForNewCustomer(ts, t, customerId) ==
  [ts EXCEPT ![t] = [IdleTask EXCEPT !.pc = "queued", !.ids = <<customerId>>]]

\* if (!customerIds || customerIds.length === 0) return; setImmediate(...)
triggerBatchPrediction(ts, t, customerIds) ==
  IF Len(customerIds) = 0 THEN [ts EXCEPT ![t] = IdleTask]
  ELSE [ts EXCEPT ![t] = [IdleTask EXCEPT !.pc = "queued", !.ids = customerIds]]

\* the event loop runs the setImmediate callback: first call of the loop
TaskRun(t) ==
  /\ cpu = 0
  /\ tasks[t].pc = "queued"
  /\ tasks' = [tasks EXCEPT ![t] = [@ EXCEPT !.pc = "running", !.i = 1]]
  /\ predictSingleWithCache(t, tasks[t].ids[1], TRUE)
  /\ UNCHANGED <<cache, autoPredictStatus, dbVars, sweeps, jobVars, requests, cpu>>

\* predictSingleWithCache has returned or thrown to the callback: an exception
\* is logged; the loop goes on with the next id
TaskCallDone(t) ==
  /\ cpu = 0
  /\ tasks[t].pc = "running"
  /\ calls[t].pc = "done"
  /\ LET tk == [tasks[t] EXCEPT !.fails = IF calls[t].out = "threw" THEN @ + 1 ELSE @] IN
     IF tk.i < Len(tk.ids)
     THEN /\ tasks' = [tasks EXCEPT ![t] = [tk EXCEPT !.i = tk.i + 1]]
          /\ predictSingleWithCache(t, tk.ids[tk.i + 1], TRUE)
     ELSE /\ tasks' = [tasks EXCEPT ![t] = IdleTask]
          /\ calls' = [calls EXCEPT ![t] = IdleCall]
          /\ UNCHANGED pending
  /\ UNCHANGED <<cache, autoPredictStatus, dbVars, sweeps, jobVars, requests, cpu>>

\* ------------------------------------------------------ customerValidator.js
VALID_JOBS == {"admin.", "blue-collar", "entrepreneur", "housemaid", "management",
               "retired", "self-employed", "services", "student", "technician",
               "unemployed", "unknown"}
VALID_MARITAL == {"divorced", "married", "single", "unknown"}
VALID_EDUCATION == {"basic.4y", "basic.6y", "basic.9y", "high.school", "illiterate",
                    "professional.course", "university.degree", "unknown",
                    "primary", "secondary", "tertiary"}
VALID_CONTACT == {"cellular", "telephone", "unknown"}
VALID_MONTHS == {"jan", "feb", "mar", "apr", "may", "jun", "jul", "aug", "sep",
                 "oct", "nov", "dec"}
VALID_DAYS == {"mon", "tue", "wed", "thu", "fri"}
VALID_POUTCOME == {"failure", "nonexistent", "success", "unknown"}

\* VALID_X.includes(v)
Includes(valid, v) == v.t = "string" /\ v.s \in valid

\* const normalizeEmpty = (val) => isPartial && (val === "" || val === null) ? undefined : val
normalizeEmpty(isPartial, val) == IF isPartial /\ val = Str("") THEN Undefined ELSE val

\* the check of one enumerated field (job, marital, education, contact, month,
\* day_of_week): required on create, checked only when given on update
EnumErrors(isPartial, v, valid, required, oneOf) ==
  IF ~isPartial
  THEN IF Falsy(v) THEN <<required>>
       ELSE IF ~Includes(valid, v) THEN <<oneOf>> ELSE <<>>
  ELSE IF v # Undefined /\ ~Includes(valid, v) THEN <<oneOf>>
       ELSE <<>>

NameErrors(isPartial, v) ==
  IF ~isPartial
  THEN IF Falsy(v) THEN <<"Name is required">>
       ELSE IF typeof(v) # "string" THEN <<"Name must be a string">> ELSE <<>>
  ELSE IF v = Undefined THEN <<>>
       ELSE IF v = Str("") THEN <<"Name cannot be empty">>
       ELSE IF typeof(v) # "string" THEN <<"Name must be a string">> ELSE <<>>

AgeOutOfRange(v) == typeof(v) # "number" \/ Less(v, 18) \/ Greater(v, 100)

AgeErrors(isPartial, v) ==
  IF ~isPartial
  THEN IF Falsy(v) THEN <<"Age is required">>
       ELSE IF AgeOutOfRange(v) THEN <<"Age must be a number between 18 and 100">>
       ELSE <<>>
  ELSE IF v # Undefined /\ AgeOutOfRange(v)
       THEN <<"Age must be a number between 18 and 100">> ELSE <<>>

\* if (v !== undefined && typeof v !== "boolean")
BooleanErrors(v, message) ==
  IF v # Undefined /\ typeof(v) # "boolean" THEN <<message>> ELSE <<>>

\* if (data.x !== undefined) { if (typeof data.x !== "number" || data.x < lo || data.x > hi) }
RangeErrors(v, lo, hi, message) ==
  IF v # Undefined /\ (typeof(v) # "number" \/ Less(v, lo) \/ Greater(v, hi))
  THEN <<message>> ELSE <<>>

BalanceErrors(v) ==
  IF v # Undefined /\ v # Str("") /\ isNaN(Number(v))
  THEN <<"Balance must be a valid number">> ELSE <<>>

\* data.default !== undefined ? data.default : data.has_default
Either(data, key, legacy) ==
  IF Get(data, key) # Undefined THEN Get(data, key) ELSE Get(data, legacy)

validateCustomerData(data, isPartial) ==
  LET d(key) == normalizeEmpty(isPartial, Get(data, key))
      errors ==
        NameErrors(isPartial, d("name"))
        \o AgeErrors(isPartial, Get(data, "age"))
        \o EnumErrors(isPartial, d("job"), VALID_JOBS,
                      "Job is required", "Job must be one of")
        \o EnumErrors(isPartial, d("marital"), VALID_MARITAL,
                      "Marital status is required", "Marital status must be one of")
        \o EnumErrors(isPartial, d("education"), VALID_EDUCATION,
                      "Education is required", "Education must be one of")
        \o EnumErrors(isPartial, d("contact"), VALID_CONTACT,
                      "Contact type is required", "Contact must be one of")
        \o EnumErrors(isPartial, d("month"), VALID_MONTHS,
                      "Month is required", "Month must be one of")
        \o EnumErrors(isPartial, d("day_of_week"), VALID_DAYS,
                      "Day of week is required", "Day of week must be one of")
        \o (IF d("poutcome") # Undefined /\ ~Includes(VALID_POUTCOME, d("poutcome"))
            THEN <<"Previous outcome must be one of">> ELSE <<>>)
        \o BooleanErrors(Either(data, "default", "has_default"), "default must be a boolean")
        \o BooleanErrors(Either(data, "housing", "has_housing_loan"), "housing must be a boolean")
        \o BooleanErrors(Either(data, "loan", "has_personal_loan"), "loan must be a boolean")
        \o BooleanErrors(Get(data, "has_default"), "has_default must be a boolean")
        \o BooleanErrors(Get(data, "has_housing_loan"), "has_housing_loan must be a boolean")
        \o BooleanErrors(Get(data, "has_personal_loan"), "has_personal_loan must be a boolean")
        \o RangeErrors(Get(data, "campaign"), 1, 100,
                       "Campaign must be a number between 1 and 100")
        \o RangeErrors(Get(data, "pdays"), 0, 999,
                       "Pdays must be a number between 0 and 999")
        \o RangeErrors(Get(data, "previous"), 0, 100,
                       "Previous must be a number between 0 and 100")
        \o BalanceErrors(Get(data, "balance"))
  IN [isValid |-> errors = <<>>, errors |-> errors]

\* ------------------------------------------------------------- csvParser.js
REQUIRED_COLUMNS == <<"name", "age", "job", "marital", "education", "default",
                      "housing", "loan", "contact", "month", "day_of_week",
                      "campaign", "pdays", "previous", "poutcome">>
OPTIONAL_COLUMNS == <<"balance">>

\* csv-parse with columns: true and relax_column_count: a record has one
\* property per header column its line has a cell for; cast: true has turned
\* the numeric cells into numbers, the other cells are trimmed strings
parse(fileBuffer) ==
  [x \in 1..Len(fileBuffer.rows) |->
     [c \in DOMAIN fileBuffer.rows[x] \cap fileBuffer.header |-> fileBuffer.rows[x][c]]]

\* records.map: every optional column exists, "" when the line had none
parseCSV(fileBuffer) ==
  LET records == parse(fileBuffer) IN
  [x \in 1..Len(records) |->
     IF "balance" \in DOMAIN records[x] THEN records[x]
     ELSE Put(records[x], "balance", Str(""))]

RECURSIVE MissingFirst(_, _)
MissingFirst(csvColumns, i) ==
  IF i > Len(REQUIRED_COLUMNS) THEN <<>>
  ELSE IF REQUIRED_COLUMNS[i] \in csvColumns THEN MissingFirst(csvColumns, i + 1)
  ELSE <<REQUIRED_COLUMNS[i]>>

\* REQUIRED_COLUMNS.filter((col) => !csvColumns.includes(col)), in order
RECURSIVE Missing(_, _)
Missing(csvColumns, i) ==
  IF i > Len(REQUIRED_COLUMNS) THEN <<>>
  ELSE (IF REQUIRED_COLUMNS[i] \in csvColumns THEN <<>> ELSE <<REQUIRED_COLUMNS[i]>>)
       \o Missing(csvColumns, i + 1)

validateCSVStructure(records) ==
  IF Len(records) = 0
  THEN [isValid |-> FALSE, error |-> "CSV file is empty", missing |-> <<>>]
  ELSE LET missingColumns == Missing(DOMAIN records[1], 1) IN
       IF Len(missingColumns) > 0
       THEN [isValid |-> FALSE, error |-> "Missing required columns",
             missing |-> missingColumns]
       ELSE [isValid |-> TRUE, error |-> "", missing |-> <<>>]

convertToBooleanExact(value) ==
  CASE typeof(value) = "boolean" -> value
    [] typeof(value) = "string" -> Bool(value.s \in {"true", "1", "yes"})
    [] typeof(value) = "number" -> Bool(value = Num(100))
    [] OTHER -> Bool(FALSE)

\* convertToBoolean(value)
convertToBoolean(value) ==
  CASE typeof(value) = "boolean" -> value
    [] typeof(value) = "string" ->
         Bool(toLowerCase(value.s) \in {"true", "1", "yes"})
    [] typeof(value) = "number" -> Bool(value = Num(100))
    [] OTHER -> Bool(FALSE)

\* lines 113-137: the balance of a record
balanceValue(record) ==
  IF "balance" \notin DOMAIN record THEN Num(0)
  ELSE LET balance == record["balance"] IN
       CASE typeof(balance) = "number" -> IF isNaN(balance) THEN Num(0) ELSE balance
         [] typeof(balance) = "string" ->
              IF balance.s \in {"", "null", "undefined", "NaN"} THEN Num(0)
              ELSE IF isNaN(parseFloat(balance.s)) THEN Num(0)
              ELSE parseFloat(balance.s)
         [] typeof(balance) = "boolean" -> Num(0)
         [] OTHER -> Num(0)

\* lines 140-151
processedRecord(record) ==
  LET r1 == Put(record, "name", Get(record, "name"))
      r2 == Put(r1, "balance", balanceValue(record))
      r3 == Put(r2, "default", convertToBoolean(Get(record, "default")))
      r4 == Put(r3, "housing", convertToBoolean(Get(record, "housing")))
      r5 == Put(r4, "loan", convertToBoolean(Get(record, "loan")))
      r6 == Put(r5, "age", parseInt(Get(record, "age")))
      r7 == Put(r6, "campaign", parseInt(Get(record, "campaign")))
      r8 == Put(r7, "pdays", parseInt(Get(record, "pdays")))
  IN Put(r8, "previous", parseInt(Get(record, "previous")))

RECURSIVE validateCSVRecordsAbort(_, _, _)
validateCSVRecordsAbort(records, i, results) ==
  IF i > Len(records) THEN results
  ELSE LET validation == validateCustomerData(processedRecord(records[i]), FALSE)
           counted == [results EXCEPT !.validated = @ + 1]
       IN IF validation.isValid
          THEN validateCSVRecordsAbort(records, i + 1,
                 [counted EXCEPT !.valid =
                    Append(@, [data |-> processedRecord(records[i]), row |-> i + 1])])
          ELSE [counted EXCEPT !.invalid =
                  Append(@, [row |-> i + 1, data |-> records[i],
                             errors |-> validation.errors])]

\* records.forEach from record i on: results after the remaining records
\* (validated counts the calls of validateCustomerData)
RECURSIVE validateCSVRecordsFrom(_, _, _)
validateCSVRecordsFrom(records, i, results) ==
  IF i > Len(records) THEN results
  ELSE LET validation == validateCustomerData(processedRecord(records[i]), FALSE)
           counted == [results EXCEPT !.validated = @ + 1]
       IN validateCSVRecordsFrom(records, i + 1,
            IF validation.isValid
            THEN [counted EXCEPT !.valid =
                    Append(@, [data |-> processedRecord(records[i]), row |-> i + 1])]
            ELSE [counted EXCEPT !.invalid =
                    Append(@, [row |-> i + 1, data |-> records[i],
                               errors |-> validation.errors])])

validateCSVRecords(records) ==
  validateCSVRecordsFrom(records, 1,
    [valid |-> <<>>, invalid |-> <<>>, totalRecords |-> Len(records), validated |-> 0])

NoData == [valid |-> <<>>, invalid |-> <<>>, totalRecords |-> 0, validated |-> 0]

parseAndValidateCSV(fileBuffer) ==
  LET records == parseCSV(fileBuffer)
      structureValidation == validateCSVStructure(records)
  IN IF ~structureValidation.isValid
     THEN [success |-> FALSE, error |-> structureValidation.error,
           missing |-> structureValidation.missing, data |-> NoData]
     ELSE [success |-> TRUE, error |-> "", missing |-> <<>>,
           data |-> validateCSVRecords(records)]

\* ------------------------------------------------ uploaded files (req.file)
AllColumns == {REQUIRED_COLUMNS[i] : i \in 1..Len(REQUIRED_COLUMNS)}
                \cup {OPTIONAL_COLUMNS[i] : i \in 1..Len(OPTIONAL_COLUMNS)}

\* the second example line of generateCSVTemplate, as csv-parse casts it
GoodRow ==
  [name |-> Str("John Doe"), age |-> Num(3000), job |-> Str("technician"),
   marital |-> Str("married"), education |-> Str("secondary"),
   default |-> Str("false"), housing |-> Str("true"), loan |-> Str("false"),
   contact |-> Str("cellular"), month |-> Str("may"), day_of_week |-> Str("mon"),
   campaign |-> Num(200), pdays |-> Num(99900), previous |-> Num(0),
   poutcome |-> Str("unknown"), balance |-> Num(150050)]

\* a line whose job is not one of VALID_JOBS
BadRow == [GoodRow EXCEPT !["job"] = Str("pilot")]

\* cells that replace one cell of the example line
CellSamples ==
  {<<"age", Str("abc")>>, <<"age", Str("25abc")>>, <<"age", Num(3050)>>,
   <<"campaign", Str("abc")>>, <<"campaign", Num(0)>>,
   <<"pdays", Str("abc")>>, <<"pdays", Num(0)>>,
   <<"previous", Str("abc")>>,
   <<"balance", Str("")>>, <<"balance", Str("NaN")>>, <<"balance", Str("abc")>>,
   <<"balance", Str("12abc")>>, <<"balance", Str("Infinity")>>,
   <<"balance", Str("1500.50")>>,
   <<"name", Str("")>>,
   <<"default", Str("YES")>>, <<"default", Num(100)>>, <<"default", Num(200)>>,
   <<"default", Str("maybe")>>, <<"loan", Str("No")>>,
   <<"age", Str("")>>, <<"name", Num(12300)>>, <<"pdays", Num(100000)>>,
   <<"housing", Str("True")>>, <<"balance", Str("null")>>}

\* default=yes, housing=0, loan=true
FlagsRow == [GoodRow EXCEPT !["default"] = Str("yes"), !["housing"] = Num(0),
                            !["loan"] = Str("true")]

\* a line that ends early has no cell for the last columns
ShortRow(dropped) == [c \in AllColumns \ dropped |-> GoodRow[c]]

RowSamples ==
  {GoodRow, BadRow, FlagsRow, ShortRow({"poutcome", "balance"})}
  \cup {[GoodRow EXCEPT ![cell[1]] = cell[2]] : cell \in CellSamples}

\* header lines: complete, or without some columns
HeaderSamples ==
  {AllColumns \ dropped : dropped \in {{}, {"balance"}, {"pdays"}, {"age", "poutcome"}}}

NoFile == [header |-> {}, rows |-> <<>>, present |-> FALSE, malformed |-> FALSE]

File(header, rows) ==
  [header |-> header, rows |-> rows, present |-> TRUE, malformed |-> FALSE]

\* a file csv-parse rejects (CSV Parse Error)
MalformedFile == [File(AllColumns, <<>>) EXCEPT !.malformed = TRUE]

Rows(samples, n) == UNION {[1..m -> samples] : m \in 0..n}

\* files of a few lines: a complete header over every kind of line, and each
\* header over example lines and lines that end early
CsvFiles ==
  {File(AllColumns, rows) : rows \in Rows(RowSamples, MaxRows)}
    \cup {File(h, rows) : h \in HeaderSamples,
                          rows \in Rows({GoodRow, BadRow, ShortRow({"poutcome", "balance"})},
                                        MaxRows)}

\* k copies of a line
Copies(row, k) == [i \in 1..k |-> row]

\* long files: a block of invalid lines and a block of example lines
LongFiles ==
  {File(AllColumns, Copies(BadRow, k) \o Copies(GoodRow, m)) :
     k \in 0..MaxUploadRows, m \in 0..MaxUploadRows}
    \cup {File(AllColumns, Copies(GoodRow, m) \o Copies(BadRow, k)) :
            k \in 0..MaxUploadRows, m \in 0..MaxUploadRows}
    \cup {NoFile, MalformedFile}

\* files of example lines, one per free customer id at most
NewCustomerFiles ==
  {File(AllColumns, rows) : rows \in Rows({GoodRow}, NumCustomers)}

\* ------------------------------------------ customerService.bulkCreateCustomers
NoInsert == [created |-> <<>>, failed |-> <<>>, successCount |-> 0,
             failedCount |-> 0, committed |-> FALSE]

\* the id the sequence of table customers hands to the i-th inserted row
NextId(free, i) == CHOOSE x \in free : Cardinality({y \in free : y < x}) = i - 1

\* BEGIN; one INSERT per customer, each in its own try/catch; COMMIT.
\* failAt is the first INSERT the database rejects (Len + 1: none).  The
\* inserts share one transaction without savepoints: after a rejected
\* statement PostgreSQL rejects every later statement of the transaction and
\* ends it, at COMMIT, by rolling back.
bulkCreateCustomers(customers, free, failAt) ==
  [created |-> [i \in 1..failAt - 1 |->
                  [row |-> customers[i].row, id |-> NextId(free, i)]],
   failed |-> [j \in 1..Len(customers) - failAt + 1 |->
                 [row |-> customers[failAt + j - 1].row,
                  error |-> IF j = 1 THEN "insert failed"
                            ELSE "current transaction is aborted"]],
   successCount |-> failAt - 1,
   failedCount |-> Len(customers) - failAt + 1,
   committed |-> failAt > Len(customers)]

\* the rows of table customers the call has added once it has returned
Persisted(insertResult) ==
  IF insertResult.committed
  THEN {insertResult.created[i].id : i \in 1..Len(insertResult.created)}
  ELSE {}

\* the response bodies of uploadCSVHandler
NoSummary == [totalRecordsInFile |-> 0, validRecords |-> 0,
              invalidRecordsDuringValidation |-> 0, successfullyCreated |-> 0,
              failedToCreate |-> 0]

NoBody == [success |-> FALSE, error |-> "", hasSummary |-> FALSE,
           summary |-> NoSummary, created |-> <<>>, validationErrors |-> <<>>,
           insertionErrors |-> <<>>, hasDetails |-> FALSE, errors |-> <<>>]

\* q.slice(0, 10)
Slice10(q) == SubSeq(q, 1, Min(Len(q), 10))

\* lines 376-386: the whole list of invalid rows goes into details.errors
NoValidRecordsBody(invalid) ==
  [NoBody EXCEPT !.error = "No Valid Records", !.hasDetails = TRUE, !.errors = invalid]

\* lines 426-449
UploadBody(data, insertResult) ==
  [NoBody EXCEPT
     !.success = TRUE,
     !.hasSummary = TRUE,
     !.summary = [totalRecordsInFile |-> data.totalRecords,
                  validRecords |-> Len(data.valid),
                  invalidRecordsDuringValidation |-> Len(data.invalid),
                  successfullyCreated |-> insertResult.successCount,
                  failedToCreate |-> insertResult.failedCount],
     !.created = Slice10(insertResult.created),
     !.validationErrors = Slice10(data.invalid),
     !.insertionErrors = Slice10(insertResult.failed)]

NoValidation == [success |-> FALSE, error |-> "", missing |-> <<>>, data |-> NoData]

\* ------------------------------------------------------ customerController
\* req.user before authenticate has attached one
NoUser == "none"

\* req.body of a request that is not a registration
NoForm == [name |-> "", email |-> "", password |-> "", role |-> "undefined"]

IdleReq == [pc |-> "idle", kind |-> "none", id |-> 0, task |-> <<"task", 0>>,
            response |-> 0, triggered |-> FALSE, file |-> NoFile,
            validation |-> NoValidation, insert |-> NoInsert, body |-> NoBody,
            authorization |-> "none", user |-> NoUser, reached |-> FALSE,
            form |-> NoForm]

\* a request arrives; t is the setImmediate slot its trigger will use (the
\* record of an answered request is dropped, ReqRelease, before the next
\* arrival; slots are interchangeable, so the lowest free one is taken)
Admissible(r, t) ==
  /\ requests[r].pc = "idle"
  /\ \A o \in ReqSlots : requests[o].pc = "idle" => r <= o
  /\ \A o \in ReqSlots : requests[o].pc # "done"
  /\ tasks[t].pc = "idle"
  /\ t[2] = r

Arrive(r, t, kind, id, pc) ==
  /\ Admissible(r, t)
  /\ tasks' = [tasks EXCEPT ![t] = [IdleTask EXCEPT !.pc = "reserved"]]
  /\ requests' = [requests EXCEPT ![r] =
        [IdleReq EXCEPT !.pc = pc, !.kind = kind, !.id = id, !.task = t]]
  /\ UNCHANGED <<cacheVars, autoPredictStatus, dbVars, calls, sweeps, jobVars,
                 cpu>>

\* the handler answers without a trigger (sendError)
Fail(r, status) ==
  /\ requests' = [requests EXCEPT ![r] = [@ EXCEPT !.pc = "done", !.response = status]]
  /\ tasks' = [tasks EXCEPT ![requests[r].task] = IdleTask]
  /\ UNCHANGED cpu

\* the handler has called its trigger and goes on, in the same synchronous
\* segment, to send the response
Triggered(r, ts) ==
  /\ requests' = [requests EXCEPT ![r] = [@ EXCEPT !.pc = "respond", !.triggered = TRUE]]
  /\ tasks' = ts
  /\ cpu' = r

createCustomerHandler(r, t) ==
  /\ cpu = 0
  /\ Arrive(r, t, "create", 0, "createCustomer")

\* createCustomer resolves; lines 156-161
CreateResolved(r) ==
  /\ cpu = 0
  /\ requests[r].pc = "createCustomer"
  /\ \E dbOk \in BOOLEAN :
       IF dbOk /\ dbCustomers # Ids
       THEN \E id \in Ids \ dbCustomers :
              /\ dbCustomers' = dbCustomers \cup {id}
              /\ Triggered(r, triggerPredictionForNewCustomer(tasks, requests[r].task, id))
       ELSE /\ Fail(r, 500)
            /\ UNCHANGED dbCustomers
  /\ UNCHANGED <<cacheVars, autoPredictStatus, dbPredictions, customerRevision,
                 predictionData, dbUsers, calls, sweeps, jobVars>>

\* UPDATE statements in flight for a customer
Updating(id) == {r \in ReqSlots : requests[r].kind = "update" /\ requests[r].id = id
                                  /\ requests[r].pc \in {"getCustomerById",
                                                         "updateCustomer"}}

updateCustomerHandler(r, t, id) ==
  /\ cpu = 0
  /\ customerRevision[id] + Cardinality(Updating(id)) < MaxUpdates
  /\ Arrive(r, t, "update", id, "getCustomerById")

\* getCustomerById resolves; lines 191-194
UpdateFetched(r) ==
  /\ cpu = 0
  /\ requests[r].pc = "getCustomerById"
  /\ \E dbOk \in BOOLEAN :
       IF ~dbOk THEN Fail(r, 500)
       ELSE IF requests[r].id \notin dbCustomers THEN Fail(r, 404)
       ELSE /\ requests' = [requests EXCEPT ![r] = [@ EXCEPT !.pc = "updateCustomer"]]
            /\ UNCHANGED <<tasks, cpu>>
  /\ UNCHANGED <<cacheVars, autoPredictStatus, dbVars, calls, sweeps, jobVars>>

\* updateCustomer resolves; lines 252-258
UpdateResolved(r) ==
  /\ cpu = 0
  /\ requests[r].pc = "updateCustomer"
  /\ \E dbOk \in BOOLEAN :
       IF dbOk
       THEN /\ customerRevision' = [customerRevision EXCEPT ![requests[r].id] = @ + 1]
            /\ cache' = deleteCachedPrediction(cache, requests[r].id)
            /\ Triggered(r, triggerPredictionForNewCustomer(tasks, requests[r].task,
                                                            requests[r].id))
       ELSE /\ Fail(r, 500)
            /\ UNCHANGED <<cache, customerRevision>>
  /\ UNCHANGED <<pending, autoPredictStatus, dbCustomers, dbPredictions,
                 predictionData, dbUsers, calls, sweeps, jobVars>>

\* deleteCustomerHandler, lines 274-300, up to its first await
deleteCustomerHandler(r, t, id) ==
  /\ cpu = 0
  /\ Arrive(r, t, "delete", id, "existingCustomer")

\* getCustomerById resolves; lines 284-288
DeleteFetched(r) ==
  /\ cpu = 0
  /\ requests[r].pc = "existingCustomer"
  /\ \E dbOk \in BOOLEAN :
       IF ~dbOk THEN Fail(r, 500)
       ELSE IF requests[r].id \notin dbCustomers THEN Fail(r, 404)
       ELSE /\ requests' = [requests EXCEPT ![r] = [@ EXCEPT !.pc = "deleteCustomer"]]
            /\ UNCHANGED <<tasks, cpu>>
  /\ UNCHANGED <<cacheVars, autoPredictStatus, dbVars, calls, sweeps, jobVars>>

\* the database executes DELETE FROM customers WHERE id = $1; the rows of
\* predictions go with it (customer_id ... ON DELETE CASCADE).  The handler
\* is still suspended in await deleteCustomer(...)
DeleteCommitted(r) ==
  /\ cpu = 0
  /\ requests[r].pc = "deleteCustomer"
  /\ \E dbOk \in BOOLEAN :
       IF dbOk
       THEN /\ dbCustomers' = dbCustomers \ {requests[r].id}
            /\ dbPredictions' = [dbPredictions EXCEPT ![requests[r].id] = 0]
            /\ predictionData' = [predictionData EXCEPT ![requests[r].id] = <<>>]
            /\ requests' = [requests EXCEPT ![r] = [@ EXCEPT !.pc = "deleted"]]
            /\ UNCHANGED <<tasks, cpu>>
       ELSE /\ Fail(r, 500)
            /\ UNCHANGED <<dbCustomers, dbPredictions, predictionData>>
  /\ UNCHANGED <<cacheVars, autoPredictStatus, customerRevision, dbUsers, calls,
                 sweeps, jobVars>>

\* deleteCustomer resolves; lines 293-296: the cache entry is deleted and the
\* response sent
DeleteResolved(r) ==
  /\ cpu = 0
  /\ requests[r].pc = "deleted"
  /\ cache' = deleteCachedPrediction(cache, requests[r].id)
  /\ requests' = [requests EXCEPT ![r] = [@ EXCEPT !.pc = "done", !.response = 200]]
  /\ tasks' = [tasks EXCEPT ![requests[r].task] = IdleTask]
  /\ UNCHANGED <<pending, autoPredictStatus, dbVars, calls, sweeps, jobVars, cpu>>

\* sendError / res.status(status).json({ success: false, error })
ErrorBody(error) == [NoBody EXCEPT !.error = error]

\* lines 343-404: the handler up to its first await.  parseAndValidateCSV is
\* synchronous; a missing file, a parse error, a structural error and a file
\* without a valid row are answered in this segment.
uploadCSVHandler(r, t, files) ==
  /\ cpu = 0
  /\ Admissible(r, t)
  /\ \E file \in files :
       LET f == [IdleReq EXCEPT !.kind = "upload", !.task = t, !.file = file]
           validationResult == parseAndValidateCSV(file)
           answered(g, status, body) ==
             /\ requests' = [requests EXCEPT ![r] =
                   [g EXCEPT !.pc = "done", !.response = status, !.body = body]]
             /\ tasks' = tasks
       IN IF ~file.present THEN answered(f, 400, ErrorBody("No file uploaded"))
          ELSE IF file.malformed THEN answered(f, 500, ErrorBody("CSV Upload Failed"))
          ELSE IF ~validationResult.success
          THEN answered([f EXCEPT !.validation = validationResult], 400,
                        ErrorBody("CSV Validation Failed"))
          ELSE IF Len(validationResult.data.valid) = 0
          THEN answered([f EXCEPT !.validation = validationResult], 400,
                        NoValidRecordsBody(validationResult.data.invalid))
          ELSE /\ requests' = [requests EXCEPT ![r] =
                     [f EXCEPT !.pc = "bulkCreateCustomers",
                               !.validation = validationResult]]
               /\ tasks' = [tasks EXCEPT ![t] = [IdleTask EXCEPT !.pc = "reserved"]]
  /\ UNCHANGED <<cacheVars, autoPredictStatus, dbVars, calls, sweeps, jobVars,
                 cpu>>

Range(q) == {q[x] : x \in 1..Len(q)}

\* bulkCreateCustomers resolves or throws; lines 409-457.  The rows become
\* visible to the other connections when the transaction commits.
UploadResolved(r) ==
  /\ cpu = 0
  /\ requests[r].pc = "bulkCreateCustomers"
  /\ LET customersToInsert == requests[r].validation.data.valid
         free == Ids \ dbCustomers
     IN \E dbOk \in BOOLEAN, failAt \in 1..Len(customersToInsert) + 1 :
          /\ failAt <= Cardinality(free) + 1
          /\ failAt <= Len(customersToInsert) \/ Len(customersToInsert) <= Cardinality(free)
          /\ IF dbOk
             THEN LET insertResult == bulkCreateCustomers(customersToInsert, free, failAt)
                      newCustomerIds == [i \in 1..Len(insertResult.created) |->
                                           insertResult.created[i].id]
                  IN /\ dbCustomers' = dbCustomers \cup Persisted(insertResult)
                     /\ requests' = [requests EXCEPT ![r] =
                           [@ EXCEPT !.pc = "respond",
                                     !.triggered = Len(newCustomerIds) > 0,
                                     !.insert = insertResult,
                                     !.body = UploadBody(requests[r].validation.data,
                                                         insertResult)]]
                     /\ tasks' = IF Len(newCustomerIds) > 0
                                 THEN triggerBatchPrediction(tasks, requests[r].task,
                                                             newCustomerIds)
                                 ELSE [tasks EXCEPT ![requests[r].task] = IdleTask]
                     /\ cpu' = r
             ELSE /\ failAt = 1
                  /\ requests' = [requests EXCEPT ![r] =
                        [@ EXCEPT !.pc = "done", !.response = 500,
                                  !.body = ErrorBody("CSV Upload Failed")]]
                  /\ tasks' = [tasks EXCEPT ![requests[r].task] = IdleTask]
                  /\ UNCHANGED <<dbCustomers, cpu>>
  /\ UNCHANGED <<cacheVars, autoPredictStatus, dbPredictions, customerRevision,
                 predictionData, dbUsers, calls, sweeps, jobVars>>

\* sendSuccess / res.status(200).json(response): the end of the segment
Respond(r) ==
  /\ cpu = r
  /\ requests[r].pc = "respond"
  /\ requests' = [requests EXCEPT ![r] =
        [@ EXCEPT !.pc = "done", !.response = IF requests[r].kind = "create" THEN 201 ELSE 200]]
  /\ cpu' = 0
  /\ UNCHANGED <<cacheVars, autoPredictStatus, dbVars, calls, sweeps, jobVars,
                 tasks>>

\* the client has its response
ReqRelease(r) ==
  /\ cpu = 0
  /\ requests[r].pc = "done"
  /\ requests' = [requests EXCEPT ![r] = IdleReq]
  /\ UNCHANGED <<cacheVars, autoPredictStatus, dbVars, calls, sweeps, jobVars,
                 tasks, cpu>>

\* --------------------------------------------- authMiddleware / rbacMiddleware
\* Authorization headers: none, a wrong scheme, a token jwt.verify rejects, an
\* expired token, and valid tokens by the role in their payload
AuthorizationSamples ==
  {"none", "Basic abc", "Bearer forged", "Bearer expired", "Bearer sales",
   "Bearer manager", "Bearer admin"}

\* jwt.verify(token, process.env.JWT_SECRET): the role of the decoded payload,
\* or the name of the error thrown
verify(authorization) ==
  CASE authorization = "Bearer sales" -> "sales"
    [] authorization = "Bearer manager" -> "manager"
    [] authorization = "Bearer admin" -> "admin"
    [] authorization = "Bearer expired" -> "TokenExpiredError"
    [] OTHER -> "JsonWebTokenError"

\* authenticate(req, res, next): the request with its answer (status 401) or
\* with req.user attached (status 0: next() was called)
authenticate(req) ==
  IF req.authorization = "none" THEN [req EXCEPT !.response = 401]
  ELSE IF req.authorization = "Basic abc" THEN [req EXCEPT !.response = 401]
  ELSE IF verify(req.authorization) \in {"TokenExpiredError", "JsonWebTokenError"}
  THEN [req EXCEPT !.response = 401]
  ELSE [req EXCEPT !.user = verify(req.authorization)]

\* requireRole(allowedRoles)(req, res, next)
requireRole(allowedRoles, req) ==
  IF req.user = NoUser THEN [req EXCEPT !.response = 401]
  ELSE IF req.user \notin allowedRoles THEN [req EXCEPT !.response = 403]
  ELSE req

requireAdmin(req) == requireRole({"admin"}, req)

\* ---------------------------------------------------------- authController.js
NameSamples == {"", "Ann"}
EmailSamples == {"", "ann", "ann@x.com", "bob@x.com"}
PasswordSamples == {"", "abc", "secret1"}
RoleSamples == {"undefined", "sales", "admin", "manager"}

Forms == [name : NameSamples, email : EmailSamples, password : PasswordSamples,
          role : RoleSamples]

\* emailRegex.test(email) on the sample addresses
emailRegexTest(email) == email \in {"ann@x.com", "bob@x.com"}

\* validateEmail(email).isValid
validateEmail(email) == email # "" /\ emailRegexTest(email)

\* password.length of the sample passwords
PasswordLength == [p \in PasswordSamples |->
                     CASE p = "" -> 0 [] p = "abc" -> 3 [] p = "secret1" -> 7]

\* validatePassword(password).isValid
validatePassword(password) == password # "" /\ PasswordLength[password] >= 6

\* const { name, email, password, role = 'sales' } = req.body
RoleOf(form) == IF form.role = "undefined" THEN "sales" ELSE form.role

\* register up to its first await: 0 when it goes on to findUserByEmail
registerValidation(form) ==
  IF form.name = "" THEN 400
  ELSE IF ~validateEmail(form.email) THEN 400
  ELSE IF ~validatePassword(form.password) THEN 400
  ELSE IF RoleOf(form) \notin {"admin", "sales"} THEN 400
  ELSE 0

\* the controller is entered
register(req) ==
  LET status == registerValidation(req.form) IN
  IF status # 0 THEN [req EXCEPT !.reached = TRUE, !.response = status, !.pc = "done"]
  ELSE [req EXCEPT !.reached = TRUE, !.pc = "findUserByEmail"]

\* ------------------------------------------------------------- authRoutes.js
\* router.post('/register', register)
authRoutes == <<"register">>

\* router.post('/register', authenticate, requireAdmin(), register): the
\* admin-only variant of the route file
authRoutesAdminOnly == <<"authenticate", "requireAdmin", "register">>

\* express runs the handlers of the route in order; a handler that answers
\* without calling next() ends the chain
RECURSIVE Dispatch(_, _, _)
Dispatch(route, i, req) ==
  IF i > Len(route) THEN req
  ELSE IF route[i] = "register" THEN register(req)
  ELSE LET after == IF route[i] = "authenticate" THEN authenticate(req)
                    ELSE requireAdmin(req) IN
       IF after.response # 0 THEN [after EXCEPT !.pc = "done"]
       ELSE Dispatch(route, i + 1, after)

\* POST /auth/register arrives and runs up to its answer or its first await
postRegister(r, route) ==
  /\ cpu = 0
  /\ requests[r].pc = "idle"
  /\ \A o \in ReqSlots : requests[o].pc = "idle" => r <= o
  /\ \A o \in ReqSlots : requests[o].pc # "done"
  /\ \E authorization \in AuthorizationSamples, form \in Forms :
       requests' = [requests EXCEPT ![r] =
         Dispatch(route, 1, [IdleReq EXCEPT !.kind = "register",
                                            !.authorization = authorization,
                                            !.form = form])]
  /\ UNCHANGED <<cacheVars, autoPredictStatus, dbVars, calls, sweeps, jobVars,
                 tasks, cpu>>

\* findUserByEmail resolves
RegisterFound(r) ==
  /\ cpu = 0
  /\ requests[r].pc = "findUserByEmail"
  /\ \E dbOk \in BOOLEAN :
       requests' = [requests EXCEPT ![r] =
         IF ~dbOk THEN [@ EXCEPT !.pc = "done", !.response = 500]
         ELSE IF @.form.email \in dbUsers
         THEN [@ EXCEPT !.pc = "done", !.response = 409]
         ELSE [@ EXCEPT !.pc = "hash"]]
  /\ UNCHANGED <<cacheVars, autoPredictStatus, dbVars, calls, sweeps, jobVars,
                 tasks, cpu>>

\* bcrypt.hash resolves
RegisterHashed(r) ==
  /\ cpu = 0
  /\ requests[r].pc = "hash"
  /\ requests' = [requests EXCEPT ![r] = [@ EXCEPT !.pc = "createUser"]]
  /\ UNCHANGED <<cacheVars, autoPredictStatus, dbVars, calls, sweeps, jobVars,
                 tasks, cpu>>

\* createUser resolves: the row is inserted, or the statement fails (a
\* duplicate email is a unique violation, answered 409 by handleDatabaseError)
RegisterCreated(r) ==
  /\ cpu = 0
  /\ requests[r].pc = "createUser"
  /\ \E dbOk \in BOOLEAN :
       LET email == requests[r].form.email IN
       IF ~dbOk
       THEN /\ requests' = [requests EXCEPT ![r] = [@ EXCEPT !.pc = "done", !.response = 500]]
            /\ UNCHANGED dbUsers
       ELSE IF email \in dbUsers
       THEN /\ requests' = [requests EXCEPT ![r] = [@ EXCEPT !.pc = "done", !.response = 409]]
            /\ UNCHANGED dbUsers
       ELSE /\ requests' = [requests EXCEPT ![r] = [@ EXCEPT !.pc = "done", !.response = 201]]
            /\ dbUsers' = dbUsers \cup {email}
  /\ UNCHANGED <<cacheVars, autoPredictStatus, dbCustomers, dbPredictions,
                 customerRevision, predictionData, calls, sweeps, jobVars, tasks, cpu>>

InitAnyEnv ==
  /\ cache = [id \in Ids |-> NoEntry]
  /\ pending = [id \in Ids |-> Absent]
  /\ autoPredictStatus = "null"
  /\ dbCustomers \in SUBSET Ids
  /\ dbPredictions = [id \in Ids |-> 0]
  /\ customerRevision = [id \in Ids |-> 0]
  /\ predictionData = [id \in Ids |-> <<>>]
  /\ dbUsers = {}
  /\ calls = [k \in Callers |-> IdleCall]
  /\ sweeps = [s \in SweepSlots |-> IdleSweep]
  /\ isJobRunning = FALSE
  /\ lastJobResult = NullResult
  /\ totalRuns = 0
  /\ lastRunTime = 0
  /\ tasks = [t \in TaskSlots |-> IdleTask]
  /\ requests = [r \in ReqSlots |-> IdleReq]
  /\ cpu = 0

Init == InitAnyEnv /\ processEnv = DefaultEnv

NextCalls ==
  \/ Tick
  \/ \E k \in ApiSlots, id \in Ids, force \in BOOLEAN : ApiCall(k, id, force)
  \/ \E k \in ApiSlots : ApiReturn(k)
  \/ \E k \in Callers : CallFetched(k)
  \/ \E k \in Callers : CallPredicted(k)
  \/ \E k \in Callers : CallSaved(k)

SpecCalls == Init /\ [][NextCalls]_vars

\* time passes, whatever becomes of the calls in flight
SpecCallsLive == Init /\ [][NextCalls]_vars /\ WF_vars(Tick)

NextJob ==
  \/ \E s \in SweepSlots : autoPredictJob(s)
  \/ \E s \in SweepSlots : triggerManualPredictJob(s)
  \/ \E s \in SweepSlots : Release(s)
  \/ \E s \in SweepSlots : SweepHealth(s)
  \/ \E s \in SweepSlots : SweepQueried(s)
  \/ \E s \in SweepSlots : SweepBatched(s)
  \/ \E s \in SweepSlots : SweepSaved(s)
  \/ \E s \in SweepSlots : SweepCallDone(s)
  \/ \E k \in SweepSlots : CallFetched(k)
  \/ \E k \in SweepSlots : CallPredicted(k)
  \/ \E k \in SweepSlots : CallSaved(k)

\* every customer row exists and none has a prediction yet
InitJob == Init /\ dbCustomers = Ids

SpecJob == InitJob /\ [][NextJob]_vars

\* the promises a run awaits settle: the health check, the query, the batch
\* call, the inserts and the single-customer calls of a run in flight
AwaitedCallsReturn ==
  \/ \E s \in SweepSlots : SweepHealth(s)
  \/ \E s \in SweepSlots : SweepQueried(s)
  \/ \E s \in SweepSlots : SweepBatched(s)
  \/ \E s \in SweepSlots : SweepSaved(s)
  \/ \E s \in SweepSlots : SweepCallDone(s)
  \/ \E k \in SweepSlots : CallFetched(k)
  \/ \E k \in SweepSlots : CallPredicted(k)
  \/ \E k \in SweepSlots : CallSaved(k)

SpecJobLive == InitJob /\ [][NextJob]_vars /\ WF_vars(AwaitedCallsReturn)

\* the job under every configuration of the two environment variables
InitConfig == InitAnyEnv /\ dbCustomers = Ids /\ processEnv \in Envs

SpecConfig == InitConfig /\ [][NextJob]_vars

NextReq ==
  \/ \E r \in ReqSlots, t \in TaskSlots : createCustomerHandler(r, t)
  \/ \E r \in ReqSlots, t \in TaskSlots, id \in Ids : updateCustomerHandler(r, t, id)
  \/ \E r \in ReqSlots, t \in TaskSlots : uploadCSVHandler(r, t, NewCustomerFiles)
  \/ \E r \in ReqSlots : CreateResolved(r)
  \/ \E r \in ReqSlots : UpdateFetched(r)
  \/ \E r \in ReqSlots : UpdateResolved(r)
  \/ \E r \in ReqSlots : UploadResolved(r)
  \/ \E r \in ReqSlots : Respond(r)
  \/ \E r \in ReqSlots : ReqRelease(r)
  \/ \E t \in TaskSlots : TaskRun(t)
  \/ \E t \in TaskSlots : TaskCallDone(t)
  \/ \E k \in TaskSlots : CallFetched(k)
  \/ \E k \in TaskSlots : CallPredicted(k)
  \/ \E k \in TaskSlots : CallSaved(k)

\* one customer row exists; the other ids are free for create and upload
InitReq == Init /\ dbCustomers = {1}

SpecReq == InitReq /\ [][NextReq]_vars

\* one cron-driven run slot beside a CSV upload and its batch trigger
Cron1 == <<"sweep", 1>>

NextAuto ==
  \/ autoPredictJob(Cron1)
  \/ Release(Cron1)
  \/ SweepHealth(Cron1)
  \/ SweepQueried(Cron1)
  \/ SweepBatched(Cron1)
  \/ SweepSaved(Cron1)
  \/ SweepCallDone(Cron1)
  \/ \E r \in ReqSlots, t \in TaskSlots : uploadCSVHandler(r, t, NewCustomerFiles)
  \/ \E r \in ReqSlots : UploadResolved(r)
  \/ \E r \in ReqSlots : Respond(r)
  \/ \E r \in ReqSlots : ReqRelease(r)
  \/ \E t \in TaskSlots : TaskRun(t)
  \/ \E t \in TaskSlots : TaskCallDone(t)
  \/ \E k \in TaskSlots \cup {Cron1} : CallFetched(k)
  \/ \E k \in TaskSlots \cup {Cron1} : CallPredicted(k)
  \/ \E k \in TaskSlots \cup {Cron1} : CallSaved(k)

\* the table is empty: every row the run and the batch trigger see was uploaded
InitAuto == Init /\ dbCustomers = {}

SpecAuto == InitAuto /\ [][NextAuto]_vars

\* customer updates while cron-driven runs score the same customers
NextUpdate ==
  \/ autoPredictJob(Cron1)
  \/ Release(Cron1)
  \/ SweepHealth(Cron1)
  \/ SweepQueried(Cron1)
  \/ SweepBatched(Cron1)
  \/ SweepSaved(Cron1)
  \/ SweepCallDone(Cron1)
  \/ \E r \in ReqSlots, t \in TaskSlots, id \in Ids : updateCustomerHandler(r, t, id)
  \/ \E r \in ReqSlots : UpdateFetched(r)
  \/ \E r \in ReqSlots : UpdateResolved(r)
  \/ \E r \in ReqSlots : Respond(r)
  \/ \E r \in ReqSlots : ReqRelease(r)
  \/ \E t \in TaskSlots : TaskRun(t)
  \/ \E t \in TaskSlots : TaskCallDone(t)
  \/ \E k \in TaskSlots \cup {Cron1} : CallFetched(k)
  \/ \E k \in TaskSlots \cup {Cron1} : CallPredicted(k)
  \/ \E k \in TaskSlots \cup {Cron1} : CallSaved(k)

SpecUpdate == InitJob /\ [][NextUpdate]_vars

\* customer deletions while predictSingleWithCache is called
NextDelete ==
  \/ \E k \in ApiSlots, id \in Ids, force \in BOOLEAN : ApiCall(k, id, force)
  \/ \E k \in ApiSlots : ApiReturn(k)
  \/ \E k \in ApiSlots : CallFetched(k)
  \/ \E k \in ApiSlots : CallPredicted(k)
  \/ \E k \in ApiSlots : CallSaved(k)
  \/ \E r \in ReqSlots, t \in TaskSlots, id \in Ids : deleteCustomerHandler(r, t, id)
  \/ \E r \in ReqSlots : DeleteFetched(r)
  \/ \E r \in ReqSlots : DeleteCommitted(r)
  \/ \E r \in ReqSlots : DeleteResolved(r)
  \/ \E r \in ReqSlots : ReqRelease(r)

SpecDelete == InitJob /\ [][NextDelete]_vars

\* scheduled ticks of a deployment with the small batch size: every run takes
\* the single-customer branch.  The cron timer keeps firing and every promise
\* settles, so no enabled step is postponed for ever.
NextTicks ==
  \/ autoPredictJob(Cron1)
  \/ Release(Cron1)
  \/ SweepHealth(Cron1)
  \/ SweepQueriedWith(Cron1, SMALL_BATCH_SIZE)
  \/ SweepCallDone(Cron1)
  \/ CallFetched(Cron1)
  \/ CallPredicted(Cron1)
  \/ CallSaved(Cron1)

SpecTicks == InitJob /\ [][NextTicks]_vars /\ WF_vars(NextTicks)

\* one upload at a time
Req1 == 1
Task1 == <<"task", 1>>

\* registrations through the route file in use
NextAuth ==
  \/ \E r \in ReqSlots : postRegister(r, authRoutes)
  \/ \E r \in ReqSlots : RegisterFound(r)
  \/ \E r \in ReqSlots : RegisterHashed(r)
  \/ \E r \in ReqSlots : RegisterCreated(r)
  \/ \E r \in ReqSlots : ReqRelease(r)

SpecAuth == InitAuto /\ [][NextAuth]_vars

\* registrations through the admin-only variant of the route file
NextAuthAdminOnly ==
  \/ \E r \in ReqSlots : postRegister(r, authRoutesAdminOnly)
  \/ \E r \in ReqSlots : RegisterFound(r)
  \/ \E r \in ReqSlots : RegisterHashed(r)
  \/ \E r \in ReqSlots : RegisterCreated(r)
  \/ \E r \in ReqSlots : ReqRelease(r)

SpecAuthAdminOnly == InitAuto /\ [][NextAuthAdminOnly]_vars

\* the CSV pipeline on files of a few lines with every kind of cell
NextCsv ==
  \/ uploadCSVHandler(Req1, Task1, CsvFiles)
  \/ UploadResolved(Req1)
  \/ Respond(Req1)
  \/ ReqRelease(Req1)

SpecCsv == InitAuto /\ [][NextCsv]_vars

\* uploads of long files
NextUpload ==
  \/ uploadCSVHandler(Req1, Task1, LongFiles)
  \/ UploadResolved(Req1)
  \/ Respond(Req1)
  \/ ReqRelease(Req1)

SpecUpload == InitAuto /\ [][NextUpload]_vars

Next == NextCalls \/ NextJob \/ NextReq

Spec == Init /\ [][Next]_vars
\* ===================================================================== claims
InFlight(s) == sweeps[s].pc \notin {"idle", "done"}

Starts(k) == calls[k].pc = "idle" /\ calls'[k].pc # "idle"

CacheHit(k) == ~calls'[k].force /\ cache[calls'[k].id] # NoEntry

Running(k) == calls[k].pc \notin {"idle", "done"}

\* C1: at most one sweep started by the scheduler is in flight at any moment,
\* cron ticks and manual triggers counted together; a tick or trigger that
\* arrives while isJobRunning is true starts no sweep, makes no query and no
\* gateway call, and its record never starts a sweep later (dropped).
C1_AtMostOneSweep ==
  /\ [](Cardinality({s \in SweepSlots : InFlight(s)}) <= 1)
  /\ [][\A s \in SweepSlots :
          (isJobRunning /\ sweeps[s].pc = "idle" /\ sweeps'[s].pc # "idle")
          => /\ sweeps'[s].pc = "done"
             /\ sweeps'[s].queries = 0 /\ sweeps'[s].gw = 0
             /\ sweeps'[s].health = "none"
             /\ calls'[s] = IdleCall
             /\ isJobRunning']_vars
  /\ [][\A s \in SweepSlots :
          sweeps[s].pc = "done" => sweeps'[s].pc \in {"done", "idle"}]_vars

C1_Witness ==
  \E s1, s2 \in SweepSlots :
    /\ InFlight(s1)
    /\ sweeps[s2].pc = "done"
    /\ sweeps[s2].reply \in {"skipped", "Job already running"}

C3_Original ==
  [][\A k \in Callers :
       (/\ Starts(k)
        /\ ~CacheHit(k)
        /\ \E h \in Callers \ {k} :
             calls[h].marked /\ Running(h) /\ calls[h].id = calls'[k].id)
       => calls'[k].out = "pending"]_vars

\* C3 amended: a call that starts without a cache hit while the pending marker
\* of its id is present returns {pending: true} in that same step: it fetches
\* nothing, calls no gateway, writes neither the store nor the cache, sets no
\* marker; and a marker disappears only by its 600 s TTL or when a call that
\* set a marker for that id finishes.
C3_PendingReturnsAtOnce ==
  /\ [][\A k \in Callers :
          (Starts(k) /\ ~CacheHit(k) /\ pending[calls'[k].id] # Absent)
          => /\ calls'[k].pc = "done"
             /\ calls'[k].out = "pending"
             /\ calls'[k].gw = 0 /\ calls'[k].cw = 0
             /\ ~calls'[k].fetched /\ ~calls'[k].marked
             /\ UNCHANGED <<cache, pending, dbCustomers, dbPredictions>>]_vars
  /\ [][\A id \in Ids :
          (pending[id] # Absent /\ pending'[id] = Absent)
          => \/ pending[id] < TickSeconds
             \/ \E h \in Callers :
                  /\ calls[h].marked /\ Running(h) /\ calls[h].id = id
                  /\ calls'[h].pc = "done"]_vars

C3_Witness ==
  \E h, k \in Callers :
    /\ h # k
    /\ calls[h].marked /\ Running(h)
    /\ calls[k].pc = "done" /\ calls[k].out = "pending" /\ calls[k].force
    /\ calls[k].id = calls[h].id

\* C4: when a call that set the pending marker of its id terminates, by a
\* result or by an exception, the marker of that id is absent in the state in
\* which the caller gets the result or the exception.
C4_MarkerClearedOnExit ==
  [][\A k \in Callers :
       (calls[k].marked /\ Running(k) /\ calls'[k].pc = "done")
       => pending'[calls[k].id] = Absent]_vars

C4_Witness ==
  \E k \in Callers :
    /\ calls[k].pc = "done" /\ calls[k].marked /\ calls[k].out = "threw"
    /\ calls[k].gw = 1
    /\ pending[calls[k].id] = Absent

Ran(s) == sweeps[s].pc = "done" /\ sweeps[s].health # "none"

OkItems(sw) == {x \in 1..Len(sw.predictions) : sw.predictions[x] = "ok"}

\* C6: when a sweep found more than one unscored customer and batchPredict
\* threw, every customer of the sweep is passed, in order and once, to
\* predictSingleWithCache(id, true), and the summary counts one success per
\* call that returned and one failure (with its errors[] entry) per call that
\* threw.
C6_FallbackRetriesEach ==
  \A s \in SweepSlots :
    sweeps[s].batchThrew
    => /\ sweeps[s].total = Len(sweeps[s].customers) /\ sweeps[s].total > 1
       /\ sweeps[s].gw = 1 /\ sweeps[s].inserts = 0
       /\ sweeps[s].pc \in {"fallback", "done"}
       /\ sweeps[s].pc = "fallback"
          => /\ sweeps[s].tried = SubSeq(sweeps[s].customers, 1, sweeps[s].i)
             /\ calls[s].pc # "idle" /\ calls[s].force
             /\ calls[s].id = sweeps[s].customers[sweeps[s].i]
       /\ sweeps[s].pc = "done"
          => /\ sweeps[s].tried = sweeps[s].customers
             /\ sweeps[s].result.success = sweeps[s].rets
             /\ sweeps[s].result.failed = sweeps[s].throws
             /\ Len(sweeps[s].result.errors) = sweeps[s].throws
             /\ sweeps[s].rets + sweeps[s].throws = sweeps[s].result.total

C6_Witness ==
  \E s \in SweepSlots :
    /\ sweeps[s].batchThrew /\ sweeps[s].pc = "done"
    /\ sweeps[s].result.success >= 1 /\ sweeps[s].result.failed >= 1

\* C7: autoPredictNewCustomers never throws: every run that ended returned a
\* summary object, with one errors[] entry per failed customer, and with an
\* error field exactly when an exception reached the top-level handler; the
\* scheduler's own catch is never entered.
C7_SweepNeverThrows ==
  \A s \in SweepSlots :
    Ran(s)
    => /\ ~sweeps[s].threw
       /\ sweeps[s].reply # "threw"
       /\ Len(sweeps[s].result.errors) = sweeps[s].result.failed
       /\ (sweeps[s].result.error # "") <=> sweeps[s].caught
       /\ sweeps[s].caught => sweeps[s].result.total = 0

C7_Witness ==
  \E s \in SweepSlots :
    /\ Ran(s) /\ sweeps[s].caught /\ sweeps[s].result.error # ""
    /\ lastJobResult = sweeps[s].result

\* C8: a failure for one customer never aborts a sweep or a batch trigger.
\* A sweep that fetched customers and ended has attempted every one of them:
\* in the batch loop every item the scorer answered has had its insert issued
\* and every other item is recorded failed; in the fallback loop and on the
\* single path every customer was passed to predictSingleWithCache; and
\* success + failed = total.  A batch trigger ends only after the call for
\* its last id, and its call in progress is the forced call for ids[i].
C8_FailuresDoNotAbort ==
  /\ [](\A s \in SweepSlots :
          (Ran(s) /\ sweeps[s].total > 0)
          => /\ sweeps[s].result.success + sweeps[s].result.failed = sweeps[s].total
             /\ IF sweeps[s].batchThrew \/ sweeps[s].total = 1
                THEN sweeps[s].tried = sweeps[s].customers
                ELSE /\ sweeps[s].inserts = Cardinality(OkItems(sweeps[s]))
                     /\ sweeps[s].result.failed
                          >= sweeps[s].total - Cardinality(OkItems(sweeps[s])))
  /\ [](\A t \in TaskSlots :
          tasks[t].pc = "running"
          => /\ tasks[t].i \in 1..Len(tasks[t].ids)
             /\ calls[t].pc # "idle" /\ calls[t].force
             /\ calls[t].id = tasks[t].ids[tasks[t].i])
  /\ [][\A t \in TaskSlots :
          (tasks[t].pc = "running" /\ tasks'[t].pc # "running")
          => tasks[t].i = Len(tasks[t].ids)]_vars
  /\ [][\A t \in TaskSlots :
          (tasks[t].pc = "running" /\ tasks'[t].pc = "running")
          => tasks'[t].i \in {tasks[t].i, tasks[t].i + 1}]_vars

C8_Witness ==
  /\ \E s \in SweepSlots :
       /\ Ran(s) /\ ~sweeps[s].batchThrew /\ sweeps[s].total > 1
       /\ sweeps[s].errors # <<>> /\ sweeps[s].errors[1] = sweeps[s].customers[1]
       /\ sweeps[s].result.success >= 1
  /\ \E t \in TaskSlots :
       tasks[t].pc = "running" /\ tasks[t].fails >= 1 /\ tasks[t].i = 2

\* C9: triggerManualPredictJob called while a run is in progress returns the
\* object {error: 'Job already running', isRunning: true} without throwing and
\* changes nothing: isJobRunning, totalRuns, lastRunTime, lastJobResult, the
\* status entry, the cache, the store and every other run are as before.
C9_ManualTriggerBusy ==
  [][\A s \in SweepSlots :
       (/\ isJobRunning
        /\ sweeps[s].pc = "idle"
        /\ sweeps'[s].pc # "idle"
        /\ sweeps'[s].kind = "manual")
       => /\ sweeps'[s].pc = "done"
          /\ sweeps'[s].reply = "Job already running"
          /\ ~sweeps'[s].threw
          /\ sweeps'[s].health = "none"
          /\ \A o \in SweepSlots \ {s} : sweeps'[o] = sweeps[o]
          /\ UNCHANGED <<isJobRunning, totalRuns, lastRunTime, lastJobResult,
                         autoPredictStatus, cache, pending, dbCustomers,
                         dbPredictions, calls>>]_vars

C9_Witness ==
  \E s1, s2 \in SweepSlots :
    /\ InFlight(s1) /\ isJobRunning
    /\ sweeps[s2].pc = "done" /\ sweeps[s2].kind = "manual"
    /\ sweeps[s2].reply = "Job already running"

\* C10: the trigger functions are fire-and-forget.  While a create, update or
\* upload handler stands between its trigger call and its response, the
\* triggered callback has not run: no customer fetch and no gateway call of it
\* has started.  The response sent after a trigger is the success response and
\* is never changed afterwards, whatever the triggered scoring does.
C10_FireAndForget ==
  /\ [](\A r \in ReqSlots :
          requests[r].pc = "respond"
          => /\ tasks[requests[r].task].pc \in {"queued", "idle"}
             /\ calls[requests[r].task].pc = "idle")
  /\ [](\A r \in ReqSlots :
          (requests[r].pc = "done" /\ requests[r].triggered)
          => requests[r].response \in {200, 201})
  /\ [][\A r \in ReqSlots :
          requests[r].pc = "done"
          => (requests'[r] = requests[r] \/ requests'[r] = IdleReq)]_vars

C10_Witness ==
  \E r \in ReqSlots :
    /\ requests[r].pc = "done" /\ requests[r].triggered
    /\ requests[r].response = 201
    /\ tasks[requests[r].task].pc = "running"
    /\ calls[requests[r].task].pc = "done"
    /\ calls[requests[r].task].out = "threw"

\* ---------------------------------------------------------------- CSV claims
Required == {REQUIRED_COLUMNS[i] : i \in 1..Len(REQUIRED_COLUMNS)}

\* the handler has parsed and validated the file of request r
Parsed(r) ==
  /\ requests[r].kind = "upload" /\ requests[r].pc # "idle"
  /\ requests[r].file.present /\ ~requests[r].file.malformed

\* a failure with one structural error and nothing about any row
Structural(v, error) ==
  ~v.success /\ v.error = error /\ v.data = NoData /\ v.data.validated = 0

\* C11 as stated: a file whose header lacks a required column gets the error
\* naming exactly the required columns absent from the header, a file with
\* zero records gets the empty-file error; no row is validated in either case.
C11_Original ==
  \A r \in ReqSlots :
    Parsed(r) =>
      LET file == requests[r].file
          v == requests[r].validation
      IN /\ (Required \ file.header # {})
              => /\ Structural(v, "Missing required columns")
                 /\ Range(v.missing) = Required \ file.header
         /\ Len(file.rows) = 0 => Structural(v, "CSV file is empty")

\* C11 (amended): a file with zero records gets the empty-file error whatever
\* its header; a file with at least one record whose first record lacks a
\* required column (so every such file whose header lacks one) gets a single
\* structural error naming, once each, exactly the required columns absent
\* from that first record; in both cases no row is validated and no per-row
\* error is produced.
C11_StructuralErrors ==
  \A r \in ReqSlots :
    Parsed(r) =>
      LET file == requests[r].file
          v == requests[r].validation
          absent == IF Len(file.rows) = 0 THEN {}
                    ELSE Required \ (DOMAIN file.rows[1] \cap file.header)
      IN /\ Len(file.rows) = 0
              => Structural(v, "CSV file is empty") /\ v.missing = <<>>
         /\ (Len(file.rows) > 0 /\ absent # {})
              => /\ Structural(v, "Missing required columns")
                 /\ Range(v.missing) = absent
                 /\ Len(v.missing) = Cardinality(absent)
         /\ (Len(file.rows) > 0 /\ Required \ file.header # {}) => absent # {}
         /\ ~v.success => requests[r].response = 400 /\ requests[r].pc = "done"

C11_Witness ==
  \E r \in ReqSlots :
    /\ Parsed(r)
    /\ requests[r].file.header = AllColumns \ {"age", "poutcome"}
    /\ Len(requests[r].file.rows) = MaxRows
    /\ requests[r].validation.missing = <<"age", "poutcome">>
    /\ requests[r].response = 400

\* row numbers of a list of valid or invalid entries
RowsOf(list) == {list[x].row : x \in 1..Len(list)}

\* the records the handler of request r validated
RecordsOf(r) == parseCSV(requests[r].file)

\* C12: of N data rows with K failing field validation, validateCSVRecords
\* returns N-K valid and K invalid entries; valid.length + invalid.length =
\* totalRecords; every row (numbered from 2) is in exactly one list, once; a
\* row is classified as it is when it is the only row of the file.
C12_RowsPartitioned ==
  \A r \in ReqSlots :
    (Parsed(r) /\ requests[r].validation.success) =>
      LET data == requests[r].validation.data
          records == RecordsOf(r)
          N == Len(requests[r].file.rows)
          failing == {x \in 1..N :
                        ~validateCustomerData(processedRecord(records[x]), FALSE).isValid}
      IN /\ data.totalRecords = N
         /\ Len(data.valid) + Len(data.invalid) = data.totalRecords
         /\ Len(data.invalid) = Cardinality(failing)
         /\ Len(data.valid) = N - Cardinality(failing)
         /\ RowsOf(data.valid) \cup RowsOf(data.invalid) = {x + 1 : x \in 1..N}
         /\ RowsOf(data.valid) \cap RowsOf(data.invalid) = {}
         /\ Cardinality(RowsOf(data.valid)) = Len(data.valid)
         /\ Cardinality(RowsOf(data.invalid)) = Len(data.invalid)
         /\ \A x \in 1..N :
              (x + 1 \in RowsOf(data.valid))
                <=> Len(validateCSVRecords(<<records[x]>>).valid) = 1
         /\ \A x \in 1..Len(data.invalid) :
              /\ data.invalid[x].data = records[data.invalid[x].row - 1]
              /\ data.invalid[x].errors # <<>>

C12_Witness ==
  \E r \in ReqSlots :
    /\ Parsed(r) /\ requests[r].validation.success
    /\ Len(requests[r].file.rows) = MaxRows
    /\ Len(requests[r].validation.data.invalid) = 1
    /\ requests[r].validation.data.invalid[1].row = 2
    /\ Len(requests[r].validation.data.valid) = MaxRows - 1
    /\ requests[r].validation.data.valid[1].row = 3

\* C13: a row in which age, campaign, pdays or previous has a value that the
\* integer parse turns into NaN is classified invalid, never valid.
C13_NaNRejected ==
  \A r \in ReqSlots :
    (Parsed(r) /\ requests[r].validation.success) =>
      LET data == requests[r].validation.data
          records == RecordsOf(r)
      IN \A x \in 1..Len(records) :
           (\E c \in {"age", "campaign", "pdays", "previous"} :
              parseInt(Get(records[x], c)) = NaN)
           => x + 1 \in RowsOf(data.invalid)

\* the cells that read as true: true, 1 and yes in any letter case
TrueCells == {Str("true"), Str("True"), Str("yes"), Str("YES"), Num(100), Bool(TRUE)}

FlagMessages == {"default must be a boolean", "housing must be a boolean",
                 "loan must be a boolean"}

\* C14: default, housing and loan are coerced to true for true, 1 and yes in
\* any letter case and to false for every other value (false, 0, no, anything
\* else, a missing cell); default=yes, housing=0, loan=true gives true, false,
\* true; no row is invalid because of these three fields.
C14_BooleanCoercion ==
  \A r \in ReqSlots :
    (Parsed(r) /\ requests[r].validation.success) =>
      LET data == requests[r].validation.data
          records == RecordsOf(r)
      IN /\ \A x \in 1..Len(data.valid), c \in {"default", "housing", "loan"} :
              data.valid[x].data[c]
                = Bool(Get(records[data.valid[x].row - 1], c) \in TrueCells)
         /\ \A x \in 1..Len(data.invalid) :
              Range(data.invalid[x].errors) \cap FlagMessages = {}
         /\ \A x \in 1..Len(records) :
              (\A c \in AllColumns \ {"default", "housing", "loan"} :
                 Get(records[x], c) = GoodRow[c])
              => x + 1 \in RowsOf(data.valid)

C14_Witness ==
  \E r \in ReqSlots :
    /\ Parsed(r) /\ requests[r].validation.success
    /\ Len(requests[r].file.rows) = MaxRows
    /\ requests[r].file.rows[1] = FlagsRow
    /\ requests[r].file.rows[MaxRows]["default"] = Str("YES")
    /\ Len(requests[r].validation.data.valid) = MaxRows
    /\ requests[r].validation.data.valid[1].data["default"] = Bool(TRUE)
    /\ requests[r].validation.data.valid[1].data["housing"] = Bool(FALSE)
    /\ requests[r].validation.data.valid[1].data["loan"] = Bool(TRUE)

\* C15: balance coercion never fails a row: an empty, "NaN", "null",
\* non-numeric or missing balance gives 0, a finite number passes unchanged,
\* a numeric string gives its value, and the balance of every valid row is a
\* finite number.
C15_BalanceFinite ==
  \A r \in ReqSlots :
    (Parsed(r) /\ requests[r].validation.success) =>
      LET data == requests[r].validation.data
          records == RecordsOf(r)
      IN /\ \A x \in 1..Len(data.invalid) :
              "Balance must be a valid number" \notin Range(data.invalid[x].errors)
         /\ \A x \in 1..Len(data.valid) :
              LET cell == Get(requests[r].file.rows[data.valid[x].row - 1], "balance")
                  balance == data.valid[x].data["balance"]
              IN /\ IsFinite(balance)
                 /\ cell \in {Undefined, Str(""), Str("NaN"), Str("null"), Str("abc")}
                      => balance = Num(0)
                 /\ IsFinite(cell) => balance = cell
                 /\ cell = Str("1500.50") => balance = Num(150050)

\* --------------------------------------------------------- upload claims
\* bulkCreateCustomers has returned to the handler of request r
Inserted(r) ==
  /\ requests[r].kind = "upload" /\ requests[r].pc \in {"respond", "done"}
  /\ requests[r].insert # NoInsert

\* C16: bulk insert is row-independent: every row reported in created is
\* persisted once the call has returned, and a row fails only for its own
\* insert, never because an earlier row of the batch failed.
C16_RowIndependent ==
  \A r \in ReqSlots :
    Inserted(r) =>
      LET insertResult == requests[r].insert IN
      /\ \A x \in 1..Len(insertResult.created) :
           insertResult.created[x].id \in dbCustomers
      /\ \A x \in 1..Len(insertResult.failed) :
           insertResult.failed[x].error = "insert failed"

\* C17: every response to an upload whose file passed the structural checks
\* carries the counts of its stages and at most the first 10 errors of each
\* stage, never the full list when more than 10 rows failed.
C17_ResponsesBounded ==
  \A r \in ReqSlots :
    (Parsed(r) /\ requests[r].validation.success /\ requests[r].pc = "done"
     /\ requests[r].response # 500) =>
      LET body == requests[r].body
          data == requests[r].validation.data
      IN /\ body.hasSummary \/ body.hasDetails
         /\ body.hasSummary =>
              /\ body.summary.totalRecordsInFile = data.totalRecords
              /\ body.summary.validRecords = Len(data.valid)
              /\ body.summary.invalidRecordsDuringValidation = Len(data.invalid)
              /\ body.summary.successfullyCreated = requests[r].insert.successCount
              /\ body.summary.failedToCreate = requests[r].insert.failedCount
         /\ Len(body.validationErrors) <= 10
         /\ Len(body.insertionErrors) <= 10
         /\ Len(body.errors) <= 10
\* C18: after a successful update of a customer the cache never again
\* serves a prediction computed from the pre-update data of that customer,
\* also when another scoring of the customer was in flight at the time of the
\* update: every cached prediction was scored from the current revision of
\* the customer's row.
C18_NoStalePrediction ==
  \A id \in Ids :
    getCachedPrediction(id) # 0
      => predictionData[id][getCachedPrediction(id)] = customerRevision[id]

\* if (mlHealth.status !== 'OK') did not fire and nothing reached the
\* top-level catch: the run went through the customers it had selected
HealthyRun(result) == ~result.skipped /\ result.error = ""

IsMissing(v) == v \in {Null, Undefined}

\* the payload the mapping is said to build: every present field unchanged,
\* the defaults for the missing ones
PassedThrough(row) ==
  LET Default(v, d) == IF IsMissing(v) THEN d ELSE v IN
  [age |-> row.age, job |-> row.job, marital |-> row.marital,
   education |-> row.education,
   default |-> Default(row.has_default, Bool(FALSE)),
   housing |-> Default(row.has_housing_loan, Bool(FALSE)),
   loan |-> Default(row.has_personal_loan, Bool(FALSE)),
   contact |-> row.contact, month |-> row.month, day_of_week |-> row.day_of_week,
   campaign |-> Default(row.campaign, Num(100)),
   pdays |-> Default(row.pdays, Num(99900)),
   previous |-> Default(row.previous, Num(0)),
   poutcome |-> Default(row.poutcome, Str("unknown"))]

\* C20: the feature payload passes every present field of the customer row
\* through unchanged and applies the defaults only to missing fields (a
\* stored pdays of 0 is sent as 0), and the single and the batch call build
\* the same payload for the same row.
C20_PayloadPassThrough ==
  /\ \A k \in Callers :
       calls[k].pc = "predictCustomer" =>
         LET row == CustomerRow(calls[k].id, calls[k].customer) IN
         /\ calls[k].payload = PassedThrough(row)
         /\ calls[k].payload = batchPredictPayload(<<row>>)[1]
  /\ \A s \in SweepSlots :
       sweeps[s].pc = "batchPredict" =>
         \A x \in 1..Len(sweeps[s].customers) :
           LET row == CustomerRow(sweeps[s].customers[x], sweeps[s].data[x]) IN
           /\ sweeps[s].payload[x] = PassedThrough(row)
           /\ sweeps[s].payload[x] = predictCustomerPayload(row)

\* C20, the part that holds: the single and the batch call build the same
\* payload for the same row
C20_SameMapping ==
  /\ \A k \in Callers :
       calls[k].pc = "predictCustomer" =>
         calls[k].payload
           = batchPredictPayload(<<CustomerRow(calls[k].id, calls[k].customer)>>)[1]
  /\ \A s \in SweepSlots :
       sweeps[s].pc = "batchPredict" =>
         \A x \in 1..Len(sweeps[s].customers) :
           sweeps[s].payload[x]
             = predictCustomerPayload(CustomerRow(sweeps[s].customers[x],
                                                  sweeps[s].data[x]))

\* C21: POST /auth/register creates a user only for a request authenticated
\* with role admin: a request without a valid token is answered 401, an
\* authenticated non-admin request 403, and in neither case is the register
\* controller reached or a user created.
C21_RegisterAdminOnly ==
  \A r \in ReqSlots :
    (requests[r].kind = "register" /\ requests[r].authorization # "Bearer admin")
      => /\ ~requests[r].reached
         /\ requests[r].pc = "done"
         /\ requests[r].response
              = IF requests[r].authorization \in {"Bearer sales", "Bearer manager"}
                THEN 403 ELSE 401

\* scoring operations of a customer whose gateway request has been issued and
\* whose result is not yet persisted: calls of predictSingleWithCache, and
\* runs whose batch holds the customer
Scoring(c) ==
  {k \in Callers : calls[k].id = c
                   /\ calls[k].pc \in {"predictCustomer", "createPrediction"}}
  \cup {<<"batch", s>> : s \in
         {s \in SweepSlots :
            \/ sweeps[s].pc = "batchPredict" /\ c \in Range(sweeps[s].customers)
            \/ /\ sweeps[s].pc = "createPrediction"
               /\ \E x \in sweeps[s].i..Len(sweeps[s].customers) :
                    sweeps[s].customers[x] = c /\ sweeps[s].predictions[x] = "ok"}}

\* C22: at no time are two scoring operations for the same customer in flight
\* at once, the batch path of a run, its single-customer fallback and the
\* two triggers taken together.
C22_OneScoringPerCustomer == \A c \in Ids : Cardinality(Scoring(c)) <= 1

\* C23: for every run that is not skipped and reports no top-level error the
\* summary is accurate: success + failed = total, total is at most
\* BATCH_SIZE, errors has one entry per failed customer, and success is the
\* number of predictions the run persisted.
C23_SummaryAccurate ==
  \A s \in SweepSlots :
    (Ran(s) /\ HealthyRun(sweeps[s].result))
      => LET summary == sweeps[s].result IN
         /\ summary.success + summary.failed = summary.total
         /\ summary.total <= BATCH_SIZE
         /\ Len(summary.errors) = summary.failed
         /\ summary.success = sweeps[s].saved

\* C23 without its last part: the counts add up
C23_CountsAddUp ==
  \A s \in SweepSlots :
    (Ran(s) /\ HealthyRun(sweeps[s].result))
      => LET summary == sweeps[s].result IN
         /\ summary.success + summary.failed = summary.total
         /\ summary.total <= BATCH_SIZE
         /\ Len(summary.errors) = summary.failed

\* C24: the scheduler always returns from Running to Idle: every run started
\* by a cron tick or a manual trigger ends with isJobRunning reset to false,
\* whatever the outcome of the sweep, provided the calls it awaits return; and
\* isJobRunning is true only while a sweep is in flight.
C24_RunningReturnsToIdle ==
  /\ isJobRunning ~> ~isJobRunning
  /\ [](isJobRunning => \E s \in SweepSlots : InFlight(s))

\* a run that ended in the top-level catch has left the scheduler idle
C24_Witness ==
  /\ ~isJobRunning /\ totalRuns > 0
  /\ \E s \in SweepSlots : Ran(s) /\ sweeps[s].caught /\ sweeps[s].kind = "manual"

\* the runs whose sweep returns or throws to the scheduler in this step
Ending == {s \in SweepSlots : sweeps[s].pc # "done" /\ sweeps'[s].pc = "done"
                                /\ sweeps'[s].health # "none"}

\* C25: totalRuns never decreases, grows by exactly one for each sweep the
\* scheduler ran (scheduled or manual, whatever its outcome) and by zero for
\* a skipped tick or a rejected manual trigger; and totalRuns = 0 exactly when
\* lastRunTime is null, exactly when lastJobResult is null.
C25_TotalRunsCounts ==
  /\ [][totalRuns' = totalRuns + Cardinality(Ending)]_vars
  /\ []((totalRuns = 0) <=> (lastRunTime = 0))
  /\ []((totalRuns = 0) <=> (lastJobResult = NullResult))
  /\ []((lastJobResult = NullResult) <=> lastJobResult.null)

\* two runs have been counted, the second one manual and skipped for an
\* unhealthy gateway, and a tick that found it in flight was dropped
C25_Witness ==
  /\ totalRuns = 2 /\ lastJobResult.skipped
  /\ \E s, o \in SweepSlots :
       /\ Ran(s) /\ sweeps[s].kind = "manual"
       /\ sweeps[o].reply = "skipped"

\* what setAutoPredictStatus is given on the exit paths of a sweep
TerminalStatuses == {"skipped - ML service unavailable", "completed - no new customers",
                     "completed - predicted", "error"}

\* C26: the auto-predict status is never left at 'running' once a sweep has
\* ended: whenever isJobRunning is false the status getJobStatus reports is
\* null or a terminal status (skipped, completed or error), and it is null
\* only as long as no sweep has run.
C26_StatusNeverLeftRunning ==
  /\ ~isJobRunning => autoPredictStatus \in TerminalStatuses \cup {"null"}
  /\ ~isJobRunning /\ totalRuns > 0 => autoPredictStatus \in TerminalStatuses
  /\ isJobRunning => autoPredictStatus # "null"

\* a sweep has gone through its customers and returned its summary, and the
\* scheduler is idle again
C26_Witness ==
  /\ ~isJobRunning /\ autoPredictStatus = "completed - predicted"
  /\ \E s \in SweepSlots : Ran(s) /\ sweeps[s].result.total > 0

\* the time between two ticks of a schedule string, in milliseconds
Interval(schedule) ==
  CASE schedule = "*/2 * * * *" -> 2 * 60 * 1000
    [] schedule = "*/5 * * * *" -> 5 * 60 * 1000
    [] schedule = "0 * * * *" -> 60 * 60 * 1000

\* C27: getJobStatus reports nextRunTime as lastRunTime plus the interval of
\* the configured schedule, for every configured schedule string, and as null
\* when no run has completed yet or the scheduler is disabled.
C27_NextRunTime ==
  getJobStatus.nextRunTime =
    IF lastRunTime = 0 \/ ~enableAutoPredictCron THEN NullTime
    ELSE getTime(lastRunTime) + Interval(getJobStatus.cronSchedule)

\* C27, the parts that hold: nextRunTime is null exactly when no run has
\* completed yet or the scheduler is disabled, and under the default schedule
\* it is lastRunTime plus two minutes.
C27_NullOrTwoMinutes ==
  /\ (getJobStatus.nextRunTime = NullTime) <=> (totalRuns = 0 \/ ~getJobStatus.cronEnabled)
  /\ AUTO_PREDICT_CRON = "*/2 * * * *" => C27_NextRunTime

\* C28: when the feature is disabled process-wide the scheduler never starts
\* a sweep, by a scheduled tick or by a manual trigger: getJobStatus never
\* reports isRunning = true together with cronEnabled = false, and totalRuns
\* stays at its initial value.
C28_DisabledStartsNothing ==
  ~getJobStatus.cronEnabled =>
    /\ ~getJobStatus.isRunning
    /\ getJobStatus.totalRuns = 0
    /\ \A s \in SweepSlots : ~InFlight(s) /\ ~Ran(s)

\* C28, the part that holds: a disabled scheduler runs no scheduled tick.
C28_DisabledNoTick ==
  ~getJobStatus.cronEnabled => \A s \in SweepSlots : sweeps[s].kind # "cron"

\* C29: in every reachable state a cached prediction for a customer is a
\* prediction record currently persisted for that customer, under any
\* interleaving of scoring with customer update and delete requests.
C29_CacheMatchesStore ==
  \A id \in Ids :
    cache[id] # NoEntry =>
      /\ id \in dbCustomers
      /\ cache[id].val \in 1..dbPredictions[id]

\* C29, the part that holds: once no delete request is waiting for its
\* DELETE to resolve, every cached prediction is a persisted one.
C29_CacheMatchesStoreAtRest ==
  (\A r \in ReqSlots : requests[r].pc # "deleted") => C29_CacheMatchesStore

\* C30: a pending marker that is never cleared stops blocking on its own.  It
\* is set with 600 seconds to live, nothing prolongs it while it is present
\* (a call it turns away does not), so the passing of time alone removes it,
\* whether or not the call that set it ever completes; and a call for that id
\* that finds no marker (and is not served from the cache) proceeds to score
\* instead of returning {pending: true}.
C30_PendingExpires ==
  /\ \A id \in Ids : (pending[id] # Absent) ~> (pending[id] = Absent)
  /\ [](\A id \in Ids : pending[id] <= PENDING_TTL)
  /\ [][\A id \in Ids : pending[id] # Absent => pending'[id] <= pending[id]]_vars
  /\ [][\A k \in ApiSlots :
          Starts(k) /\ ~CacheHit(k) /\ pending[calls'[k].id] = Absent
          => /\ calls'[k].pc = "getCustomerById"
             /\ calls'[k].out # "pending"
             /\ pending'[calls'[k].id] = PENDING_TTL]_vars

\* the call that set the marker is still in flight, the marker has expired,
\* and a second call for the same id has gone on to score
C30_Witness ==
  \E h, k \in ApiSlots :
    /\ h # k /\ calls[h].id = calls[k].id
    /\ Running(h) /\ calls[h].marked
    /\ Running(k) /\ calls[k].marked

====
